---- MODULE Spec2Model ----
(***************************************************************************)
(* Supplier catalogue synchronisation engine of rise-core-api:             *)
(*   - CatalogSyncJob.run (adaptive pagination revision), its page-fetch   *)
(*     wrapper and its batched upsert;                                     *)
(*   - FarnellClient.fetchJsonWithRetry, the retrying HTTP fetch;          *)
(*   - AppController.searchCatalog / getProduct / searchFarnellBatch with  *)
(*     the in-memory search cache and the Product table.                   *)
(* Strings on which the code works character by character (queries, SKUs,  *)
(* names) are sequences of one-character strings.                          *)
(***************************************************************************)
EXTENDS Integers, Sequences, FiniteSets, TLC

VARIABLES
    isRunning,   \* CatalogSyncJob.isRunning, the single-flight flag
    cfg,         \* the raw CATALOG_SYNC_* / SUPPLIER_FARNELL_* configuration
    job,         \* job[i]: the locals of invocation i of CatalogSyncJob.run
    outcome,     \* how the last call of run() that returned has ended
    runs,        \* number of runs started so far (bounded by MaxRuns)
    rev,         \* revision of the upstream catalogue (names change with it)
    store,       \* the Product table: a set of rows
    now,         \* Date.now(), in clock ticks
    ttlEnv,      \* process.env.SEARCH_CACHE_TTL_MS
    searchCache, \* AppController.searchCache: the Map's entries in insertion order
    call         \* call[c]: the locals of HTTP handler invocation c

vars == <<isRunning, cfg, job, outcome, runs, rev, store, now, ttlEnv, searchCache, call>>

syncVars == <<isRunning, cfg, job, outcome, runs>>

appVars == <<now, ttlEnv, searchCache, call>>

----------------------------------------------------------------------------
(* Bounds of the model *)

NInv == 2          \* concurrent invocations of run() (cron tick, admin trigger)
MaxRuns == 2       \* runs started in one behaviour
NSku == 2          \* distinct SKUs the upstream can return
MaxPageLen == 2    \* entries in one upstream page
MaxCfg == 2        \* largest configured count
MaxRev == 2        \* upstream catalogue revisions

Inv == 1..NInv

----------------------------------------------------------------------------
(* Values *)

SkuLetters == <<"A", "B", "C", "D", "E">>

SKUS == {<<SkuLetters[n]>> : n \in 1..NSku}

\* The value of an unset option or absent field (undefined / null).
Undefined == [undefined |-> TRUE]

RevLetters == <<"x", "y", "z", "w">>

\* The upstream payload of SKU s at catalogue revision r.
Payload(s, r) == [sku |-> s, displayName |-> <<"n", RevLetters[r]>>]

\* farnell.client.ts: the SupplierProduct built from a payload.
ToSupplierProduct(p) ==
    [supplier |-> "farnell", supplierSku |-> p.sku, name |-> p.displayName, raw |-> p]

Min(a, b) == IF a < b THEN a ELSE b

Max(a, b) == IF a > b THEN a ELSE b

RECURSIVE Lower(_)
\* String.prototype.toLowerCase on a sequence of characters.
Lower(str) ==
    IF str = <<>> THEN <<>>
    ELSE LET c == Head(str)
             l == CASE c = "P" -> "p" [] c = "A" -> "a" [] c = "B" -> "b"
                    [] c = "F" -> "f" [] c = "N" -> "n" [] c = "R" -> "r"
                    [] c = "L" -> "l" [] OTHER -> c
         IN <<l>> \o Lower(Tail(str))

IsSpace(c) == c = " "

RECURSIVE TrimLeft(_)
TrimLeft(str) ==
    IF str # <<>> /\ IsSpace(Head(str)) THEN TrimLeft(Tail(str)) ELSE str

RECURSIVE TrimRight(_)
TrimRight(str) ==
    IF str # <<>> /\ IsSpace(str[Len(str)])
    THEN TrimRight(SubSeq(str, 1, Len(str) - 1)) ELSE str

\* String.prototype.trim.
Trim(str) == TrimRight(TrimLeft(str))

\* String.prototype.includes
Includes(str, sub) ==
    \E k \in 1..(Len(str) - Len(sub) + 1) : SubSeq(str, k, k + Len(sub) - 1) = sub

----------------------------------------------------------------------------
(* The Product table (unnamed/part_000) and the upsert of one row *)

\* `${supplier}:${p.supplierSku}`
SupplierKey(supplier, sku) == <<supplier, ":">> \o sku

\* toInputJsonValue(p.raw ?? p): the payload when the product carries one,
\* else the JSON of the product itself.
RawForStore(p) ==
    IF p.raw = Undefined
    THEN [supplier |-> p.supplier, supplierSku |-> p.supplierSku, name |-> p.name]
    ELSE p.raw

PrismaUpsert_AlwaysInsert(st, key, create, upd) == st \cup {create}

\* prisma.product.upsert({where: {supplierKey}, create, update}): the row
\* with this supplierKey gets the update fields, or the create row is added.
\* upd is a record of the overwritten fields.
PrismaUpsert(st, key, create, upd) ==
    IF \E r \in st : r.supplierKey = key
    THEN {IF r.supplierKey = key
          THEN [f \in DOMAIN r |-> IF f \in DOMAIN upd THEN upd[f] ELSE r[f]]
          ELSE r : r \in st}
    ELSE st \cup {create}

\* One upsert operation of CatalogSyncJob.upsertBatch: sourceUpdatedAt is
\* not among the written fields (0 is the column's NULL).
SyncUpsertOne(st, p) ==
    LET key == SupplierKey("farnell", p.supplierSku)
    IN PrismaUpsert(st, key,
          [supplier |-> "farnell", supplierSku |-> p.supplierSku,
           supplierKey |-> key, name |-> p.name, raw |-> RawForStore(p),
           sourceUpdatedAt |-> 0],
          [name |-> p.name, raw |-> RawForStore(p)])

RECURSIVE SyncUpsertAll(_, _)
\* prisma.$transaction(ops): the operations of a batch, in order.
SyncUpsertAll(st, batch) ==
    IF batch = <<>> THEN st
    ELSE SyncUpsertAll(SyncUpsertOne(st, Head(batch)), Tail(batch))

AppUpsertOne_CreateOnly(st, p, t) ==
    LET key == SupplierKey("farnell", p.supplierSku)
    IN PrismaUpsert(st, key,
          [supplier |-> "farnell", supplierSku |-> p.supplierSku,
           supplierKey |-> key, name |-> p.name, raw |-> RawForStore(p),
           sourceUpdatedAt |-> t],
          [name |-> p.name])

\* One upsert operation of searchCatalog and upsertFarnellProducts: t is
\* the new Date() taken when the operation was built.
AppUpsertOne(st, p, t) ==
    LET key == SupplierKey("farnell", p.supplierSku)
    IN PrismaUpsert(st, key,
          [supplier |-> "farnell", supplierSku |-> p.supplierSku,
           supplierKey |-> key, name |-> p.name, raw |-> RawForStore(p),
           sourceUpdatedAt |-> t],
          [name |-> p.name, raw |-> RawForStore(p), sourceUpdatedAt |-> t])

RECURSIVE AppUpsertAll(_, _, _)
\* prisma.$transaction(ops) of searchCatalog and upsertFarnellProducts.
AppUpsertAll(st, items, t) ==
    IF items = <<>> THEN st
    ELSE AppUpsertAll(AppUpsertOne(st, Head(items), t), Tail(items), t)

----------------------------------------------------------------------------
(* FarnellClient.fetchJsonWithRetry *)

MaxAttempts == 5

SeedDelayMs == 400

DelayCapMs == 10000

RateLimitWaitCapMs == 15000

\* HTTP exchanges: a status with a body and a Retry-After header (0: no
\* header), a transport failure, a 2xx whose body is not JSON, or a 2xx
\* with the products of a page.
RateLimitBody == <<"Rate", " ", "Limit", " ", "exceeded">>

ForbiddenBody == <<"Forbidden">>

QpsBody == <<"Max", " ", "Queries", " ", "Per", " ", "Second">>

HttpOk(skus) == [kind |-> "ok", skus |-> skus]

\* A 2xx whose container holds the JSON value products.
HttpJson(products) == [kind |-> "ok", products |-> products]

HttpStatus(st, body, ra) == [kind |-> "status", status |-> st, body |-> body, retryAfter |-> ra]

HttpThrows == [kind |-> "throws"]

\* One word of a body in lower case.
LowerWord(w) ==
    CASE w = "Rate" -> "rate" [] w = "Limit" -> "limit" [] w = "Forbidden" -> "forbidden"
      [] w = "Max" -> "max" [] w = "Queries" -> "queries" [] w = "Per" -> "per"
      [] w = "Second" -> "second" [] OTHER -> w

\* text.toLowerCase() of a body given in words.
LowerBody(body) == [k \in DOMAIN body |-> LowerWord(body[k])]

\* isRateLimit403 without toLowerCase.
isRateLimit403_CaseSensitive(r) ==
    /\ r.status = 403
    /\ \/ Includes(r.body, <<"rate", " ", "limit">>)
       \/ Includes(r.body, <<"queries", " ", "per", " ", "second">>)

\* farnell.client.ts:247-250
isRateLimit403(r) ==
    /\ r.status = 403
    /\ \/ Includes(LowerBody(r.body), <<"rate", " ", "limit">>)
       \/ Includes(LowerBody(r.body), <<"queries", " ", "per", " ", "second">>)

\* What an exchange showed: its status and body (200 for a page, 0 when
\* the request or the parse threw).
Shown(r) ==
    IF r.kind = "status" THEN [status |-> r.status, body |-> r.body]
    ELSE [status |-> IF r.kind = "ok" THEN 200 ELSE 0, body |-> <<>>]

NothingShown == [status |-> -1, body |-> <<>>]

MixedShown == [status |-> -2, body |-> <<>>]

\* The fetcher before its first attempt.  only429, last and same keep the
\* history of the exchanges: whether all were 429, the last one, and the
\* one all of them were (or MixedShown).
FetcherStart ==
    [attempt |-> 0, delayMs |-> SeedDelayMs, state |-> "pending", waitMs |-> 0,
     only429 |-> TRUE, last |-> NothingShown, same |-> NothingShown]

\* FetcherStep whose catch block never rethrows.
FetcherStep_NoCeiling(f, r) ==
    LET a == f.attempt + 1
        doubled == Min(f.delayMs * 2, DelayCapMs)
        g == [f EXCEPT !.attempt = a,
                       !.only429 = @ /\ r.kind = "status" /\ r.status = 429,
                       !.last = Shown(r),
                       !.same = IF @ \in {NothingShown, Shown(r)} THEN Shown(r)
                                ELSE MixedShown]
        \* the catch block: rethrow at the ceiling, else wait delayMs
        caught == [g EXCEPT !.waitMs = f.delayMs, !.delayMs = doubled]
    IN CASE r.kind = "throws" -> caught
         [] r.kind = "ok" -> [g EXCEPT !.state = "ok", !.waitMs = 0]
         [] r.kind = "status" /\ r.status = 429 ->
              LET w == IF r.retryAfter # 0 THEN r.retryAfter * 1000 ELSE f.delayMs
              IN IF a < MaxAttempts
                 THEN [g EXCEPT !.waitMs = w, !.delayMs = doubled]
                 ELSE \* falls through to the !res.ok branch and its throw
                      [g EXCEPT !.waitMs = w, !.delayMs = doubled, !.state = "error"]
         [] r.kind = "status" /\ isRateLimit403(r) ->
              LET w == Min(f.delayMs * 2, RateLimitWaitCapMs)
              IN IF a < MaxAttempts
                 THEN [g EXCEPT !.waitMs = w, !.delayMs = doubled]
                 ELSE [g EXCEPT !.waitMs = w, !.delayMs = doubled,
                                !.state = "rateLimited"]
         [] OTHER -> caught

\* One pass of the while(true) loop: the request gets the exchange r. state
\* becomes "ok" (the JSON is returned), "rateLimited" (FarnellRateLimitError
\* leaves the function), "error" (another Error leaves it) or stays
\* "pending" after a wait of waitMs.
FetcherStep(f, r) ==
    LET a == f.attempt + 1
        doubled == Min(f.delayMs * 2, DelayCapMs)
        g == [f EXCEPT !.attempt = a,
                       !.only429 = @ /\ r.kind = "status" /\ r.status = 429,
                       !.last = Shown(r),
                       !.same = IF @ \in {NothingShown, Shown(r)} THEN Shown(r)
                                ELSE MixedShown]
        \* the catch block: rethrow at the ceiling, else wait delayMs
        caught == IF a >= MaxAttempts
                  THEN [g EXCEPT !.state = "error", !.waitMs = 0]
                  ELSE [g EXCEPT !.waitMs = f.delayMs, !.delayMs = doubled]
    IN CASE r.kind = "throws" -> caught
         [] r.kind = "ok" -> [g EXCEPT !.state = "ok", !.waitMs = 0]
         [] r.kind = "status" /\ r.status = 429 ->
              LET w == IF r.retryAfter # 0 THEN r.retryAfter * 1000 ELSE f.delayMs
              IN IF a < MaxAttempts
                 THEN [g EXCEPT !.waitMs = w, !.delayMs = doubled]
                 ELSE \* falls through to the !res.ok branch and its throw
                      [g EXCEPT !.waitMs = w, !.delayMs = doubled, !.state = "error"]
         [] r.kind = "status" /\ isRateLimit403(r) ->
              LET w == Min(f.delayMs * 2, RateLimitWaitCapMs)
              IN IF a < MaxAttempts
                 THEN [g EXCEPT !.waitMs = w, !.delayMs = doubled]
                 ELSE [g EXCEPT !.waitMs = w, !.delayMs = doubled,
                                !.state = "rateLimited"]
         [] OTHER -> caught

----------------------------------------------------------------------------
(* The search cache of AppController *)

CacheMaxSize == 500

DefaultTtlMs == 60000

\* getSearchCacheTtlMs(): the environment value is a sequence of
\* characters ("" when unset); the model's values are "", "0", "2" and "-1".
\* Number("-1") is finite but not >= 0, so the fallback is returned.
getSearchCacheTtlMs ==
    CASE ttlEnv = <<"0">> -> 0
      [] ttlEnv = <<"2">> -> 2
      [] ttlEnv = <<"-", "1">> -> DefaultTtlMs
      [] OTHER -> DefaultTtlMs

\* pruneCache that deletes the newest entries beyond the capacity.
pruneCache_NewestOut(cache, t) ==
    LET live == SelectSeq(cache, LAMBDA e : ~(e.expiresAt <= t))
    IN IF Len(live) <= CacheMaxSize THEN live
       ELSE SubSeq(live, 1, CacheMaxSize)

\* pruneCache(cache) at time t
pruneCache(cache, t) ==
    LET live == SelectSeq(cache, LAMBDA e : ~(e.expiresAt <= t))
    IN IF Len(live) <= CacheMaxSize THEN live
       ELSE SubSeq(live, Len(live) - CacheMaxSize + 1, Len(live))

CacheIndex(cache, key) == {k \in DOMAIN cache : cache[k].key = key}

\* getSearchCache(key): the pruned cache and the value found, or NoValue.
NoValue == [source |-> "none"]

getSearchCache(cache, key, t) ==
    LET pruned == pruneCache(cache, t)
        found == CacheIndex(pruned, key)
    IN IF found = {} THEN [cache |-> pruned, value |-> NoValue]
       ELSE LET e == pruned[CHOOSE k \in found : TRUE]
            IN IF e.expiresAt <= t
               THEN [cache |-> SelectSeq(pruned, LAMBDA x : x.key # key),
                     value |-> NoValue]
               ELSE [cache |-> pruned, value |-> e.value]

\* Map.prototype.set: an existing key keeps its place.
MapSet(cache, key, entry) ==
    IF CacheIndex(cache, key) = {} THEN Append(cache, entry)
    ELSE [k \in DOMAIN cache |-> IF cache[k].key = key THEN entry ELSE cache[k]]

\* setSearchCache(key, value) at time t
setSearchCache(cache, key, value, t) ==
    LET ttlMs == getSearchCacheTtlMs
    IN IF ttlMs <= 0 THEN cache
       ELSE pruneCache(MapSet(cache, key,
                [key |-> key, expiresAt |-> t + ttlMs, value |-> value]), t)

----------------------------------------------------------------------------
(* CatalogSyncJob: configuration *)

\* Numeric options are kept in halves (2 is 1, 1 is 0.5); 0 stands for an
\* unset, non-numeric or non-positive option.
\* toPositiveInt(v, fallback)
toPositiveInt(v, fallback) == IF v > 0 THEN v \div 2 ELSE fallback

batchSize == toPositiveInt(cfg.batchSize, 50)

targetTotal == toPositiveInt(cfg.targetTotal, 150)

maxPages == toPositiveInt(cfg.maxPages, 10)

maxTotal == toPositiveInt(cfg.maxTotal, targetTotal)

pageSizeDefault == toPositiveInt(cfg.pageSize, 50)

paginationModeEnv == Lower(Trim(cfg.paginationMode))

allowAutoMode == paginationModeEnv = <<>>

InitialPaginationMode ==
    IF paginationModeEnv = <<"p", "a", "g", "e">> THEN "page" ELSE "item"

WholeCounts == {2 * n : n \in 1..MaxCfg}

ModeOptions == {<<>>, <<" ", "P", "a", "g", "e">>, <<"i", "t", "e", "m">>}

\* A target of MaxCfg entries, pages of 2, batches of 1, auto-detection on,
\* maxPages and maxTotal left unset.
BaseConfig ==
    [targetTotal |-> 2 * MaxCfg, maxPages |-> 0, maxTotal |-> 0,
     pageSize |-> 4, batchSize |-> 2, paginationMode |-> <<>>]

\* The configurations of a run: whole counts up to MaxCfg, maxPages and
\* maxTotal also left unset, each way to set the pagination mode.
SyncConfigs ==
    [targetTotal : WholeCounts, maxPages : WholeCounts \cup {0},
     maxTotal : WholeCounts \cup {0}, pageSize : WholeCounts,
     batchSize : WholeCounts, paginationMode : ModeOptions]

\* Configurations whose runs fetch a single page.
FlightConfigs ==
    {[BaseConfig EXCEPT !.maxPages = 2],
     [BaseConfig EXCEPT !.maxPages = 2, !.batchSize = 4]}

----------------------------------------------------------------------------
(* CatalogSyncJob.run: locals of one invocation *)

\* fetches, switches, stop, allSame and waited are history: the requests
\* made, the mode switches, why the fetch phase ended, whether every page
\* was one and the same single-entry page, and whether the page delay has
\* elapsed since the last page came back (TRUE before the first request).
IdleJob ==
    [pc |-> "idle", products |-> <<>>, seenSkus |-> {}, duplicatePagesInRow |-> 0,
     paginationMode |-> "item", pageIndex |-> 0, offset |-> 0, take |-> 0,
     page |-> <<>>, attempt |-> 0, batches |-> <<>>, bi |-> 0,
     err |-> "none", fetches |-> 0, switches |-> 0, stop |-> "none",
     allSame |-> TRUE, waited |-> TRUE]

\* chunk(arr, size)
chunk(arr, size) ==
    IF size <= 0 THEN <<arr>>
    ELSE [k \in 1..((Len(arr) + size - 1) \div size) |->
             SubSeq(arr, (k - 1) * size + 1, Min(k * size, Len(arr)))]

RECURSIVE MergePage_NoSeenCheck(_, _)
\* MergePage with the seenSkus test left out.
MergePage_NoSeenCheck(acc, page) ==
    IF page = <<>> THEN acc
    ELSE LET p == Head(page)
         IN MergePage_NoSeenCheck(
                [acc EXCEPT !.seenSkus = @ \cup {p.supplierSku},
                            !.products = Append(@, p),
                            !.added = @ + 1], Tail(page))

RECURSIVE MergePage(_, _)
\* The for-loop over a page: acc is [products, seenSkus, added, dupes].
MergePage(acc, page) ==
    IF page = <<>> THEN acc
    ELSE LET p == Head(page)
         IN IF p.supplierSku \in acc.seenSkus
            THEN MergePage([acc EXCEPT !.dupes = @ + 1], Tail(page))
            ELSE MergePage([acc EXCEPT !.seenSkus = @ \cup {p.supplierSku},
                                       !.products = Append(@, p),
                                       !.added = @ + 1], Tail(page))

\* Upstream pages: any sequence of SKUs (repeats allowed) at revision r.
SkuPages == UNION {[1..n -> SKUS] : n \in 0..MaxPageLen}

PageOf(skus, r) == [k \in DOMAIN skus |-> ToSupplierProduct(Payload(skus[k], r))]

\* OffsetFor that counts in items whatever the mode.
OffsetFor_AlwaysItem(mode, idx) == idx * pageSizeDefault

\* Offset of the request for the page at index idx in the given mode.
OffsetFor(mode, idx) == IF mode = "item" THEN idx * pageSizeDefault ELSE idx

\* StopBeforeFetch without the maxPages guard.
StopBeforeFetch_NoMaxPages(j) ==
    IF ~(Len(j.products) < targetTotal) THEN "target"
    ELSE IF Len(j.products) >= maxTotal THEN "maxTotal"
    ELSE IF Min(targetTotal, maxTotal) - Len(j.products) <= 0 THEN "budget"
    ELSE "none"

\* part_001:105-116, the checks made before a page is fetched: the reason
\* to leave the loop, or "none".
StopBeforeFetch(j) ==
    IF ~(Len(j.products) < targetTotal) THEN "target"
    ELSE IF j.pageIndex >= maxPages THEN "maxPages"
    ELSE IF Len(j.products) >= maxTotal THEN "maxTotal"
    ELSE IF Min(targetTotal, maxTotal) - Len(j.products) <= 0 THEN "budget"
    ELSE "none"

\* part_001:220-225, the end of run(): 'CatalogSync finished.' or the catch
\* block has logged, the finally block clears the flag and the locals die.
EndRun(i, what) ==
    /\ isRunning' = FALSE
    /\ job' = [job EXCEPT ![i] = IdleJob]
    /\ outcome' = what

\* part_001:221-222, an error thrown inside the try block reaches the catch.
Throw(i, kind) == job' = [job EXCEPT ![i].pc = "catch", ![i].err = kind]

\* Trigger without the isRunning test.
Trigger_NoGuard(i) ==
    /\ UNCHANGED appVars
    /\ job[i].pc = "idle"
    /\ runs < MaxRuns
    /\ isRunning' = TRUE
    /\ runs' = runs + 1
    /\ job' = [job EXCEPT ![i] =
                 [IdleJob EXCEPT !.pc = "loop",
                                 !.paginationMode = InitialPaginationMode]]
    /\ UNCHANGED <<outcome, cfg, rev, store>>

\* part_001:43-50, a cron tick or POST /admin/sync/farnell entering run().
Trigger(i) ==
    /\ UNCHANGED appVars
    /\ job[i].pc = "idle"
    /\ IF isRunning
       THEN /\ outcome' = "skipped"
            /\ UNCHANGED <<isRunning, job, runs>>
       ELSE /\ runs < MaxRuns
            /\ isRunning' = TRUE
            /\ runs' = runs + 1
            /\ job' = [job EXCEPT ![i] =
                         [IdleJob EXCEPT !.pc = "loop",
                                         !.paginationMode = InitialPaginationMode]]
            /\ UNCHANGED outcome
    /\ UNCHANGED <<cfg, rev, store>>

\* part_001:105-127, the loop head: stop, or request the next page.
LoopHead(i) ==
    /\ UNCHANGED appVars
    /\ job[i].pc = "loop"
    /\ LET j == job[i]
           why == StopBeforeFetch(j)
           remaining == Min(targetTotal, maxTotal) - Len(j.products)
       IN IF why # "none"
          THEN job' = [job EXCEPT ![i].pc = "chunk", ![i].stop = why]
          ELSE job' = [job EXCEPT ![i].pc = "fetch",
                                  ![i].take = Min(pageSizeDefault, remaining),
                                  ![i].offset = OffsetFor(j.paginationMode, j.pageIndex),
                                  ![i].attempt = 1,
                                  ![i].fetches = @ + 1]
    /\ UNCHANGED <<isRunning, cfg, outcome, runs, rev, store>>

\* AfterPage that keeps the streak when a page adds entries.
AfterPage_NoReset(j, page) ==
    IF page = <<>> THEN [j EXCEPT !.pc = "chunk", !.stop = "empty", !.page = <<>>]
    ELSE LET m == MergePage([products |-> j.products, seenSkus |-> j.seenSkus,
                             added |-> 0, dupes |-> 0], page)
             k == [j EXCEPT !.products = m.products, !.seenSkus = m.seenSkus,
                            !.pageIndex = @ + 1, !.page = <<>>]
         IN IF m.dupes = Len(page)
            THEN IF j.duplicatePagesInRow + 1 >= 2
                 THEN [k EXCEPT !.duplicatePagesInRow = @ + 1,
                                !.pc = "chunk", !.stop = "dupStreak"]
                 ELSE [k EXCEPT !.duplicatePagesInRow = @ + 1, !.pc = "loop"]
            ELSE [k EXCEPT !.pc = "pageDelay"]

\* AfterPage stopping at the first fully-duplicate page.
AfterPage_StreakOfOne(j, page) ==
    IF page = <<>> THEN [j EXCEPT !.pc = "chunk", !.stop = "empty", !.page = <<>>]
    ELSE LET m == MergePage([products |-> j.products, seenSkus |-> j.seenSkus,
                             added |-> 0, dupes |-> 0], page)
             k == [j EXCEPT !.products = m.products, !.seenSkus = m.seenSkus,
                            !.pageIndex = @ + 1, !.page = <<>>]
         IN IF m.dupes = Len(page)
            THEN [k EXCEPT !.duplicatePagesInRow = @ + 1,
                           !.pc = "chunk", !.stop = "dupStreak"]
            ELSE [k EXCEPT !.duplicatePagesInRow = 0, !.pc = "pageDelay"]

\* part_001:154-197, what the loop does with the page it keeps.
AfterPage(j, page) ==
    IF page = <<>> THEN [j EXCEPT !.pc = "chunk", !.stop = "empty", !.page = <<>>]
    ELSE LET m == MergePage([products |-> j.products, seenSkus |-> j.seenSkus,
                             added |-> 0, dupes |-> 0], page)
             k == [j EXCEPT !.products = m.products, !.seenSkus = m.seenSkus,
                            !.pageIndex = @ + 1, !.page = <<>>]
         IN IF m.dupes = Len(page)
            THEN IF j.duplicatePagesInRow + 1 >= 2
                 THEN [k EXCEPT !.duplicatePagesInRow = @ + 1,
                                !.pc = "chunk", !.stop = "dupStreak"]
                 ELSE [k EXCEPT !.duplicatePagesInRow = @ + 1, !.pc = "loop"]
            ELSE [k EXCEPT !.duplicatePagesInRow = 0, !.pc = "pageDelay"]

\* ShouldSwitchMode never switching.
ShouldSwitchMode_Never(j, page) == FALSE

\* ShouldSwitchMode without the test of the current mode.
ShouldSwitchMode_AnyMode(j, page) ==
    /\ allowAutoMode
    /\ Len(page) = 0
    /\ j.pageIndex > 0

\* part_001:129-134, the test that turns an empty page into a mode switch.
ShouldSwitchMode(j, page) ==
    /\ allowAutoMode
    /\ Len(page) = 0
    /\ j.paginationMode = "item"
    /\ j.pageIndex > 0

\* History of the upstream in this run: every page returned so far was one
\* and the same single-entry page.
SameSinglePage(j, page) ==
    /\ Len(page) = 1
    /\ j.products = <<>> \/ j.products = page

\* part_001:122-197, fetchFarnellPageWithRetry returns a page.
FetchPage(i, skus) ==
    /\ UNCHANGED appVars
    /\ job[i].pc \in {"fetch", "refetch"}
    /\ LET page == PageOf(skus, rev)
           j == [job[i] EXCEPT
                   !.page = page,
                   !.waited = FALSE,
                   !.allSame = @ /\ SameSinglePage(job[i], page)]
       IN IF j.pc = "fetch" /\ ShouldSwitchMode(j, page)
          THEN job' = [job EXCEPT ![i] =
                         [j EXCEPT !.paginationMode = "page",
                                   !.offset = j.pageIndex,
                                   !.pc = "refetch",
                                   !.attempt = 1,
                                   !.fetches = @ + 1,
                                   !.switches = @ + 1]]
          ELSE job' = [job EXCEPT ![i] = AfterPage(j, page)]
    /\ UNCHANGED <<isRunning, cfg, outcome, runs, rev, store>>

\* The upstream answers with any page.
FetchOk(i) == \E skus \in SkuPages : FetchPage(i, skus)

ErrorKinds == {"RateLimited", "UpstreamError"}

\* part_001:228-256, searchProducts throws inside fetchFarnellPageWithRetry:
\* another attempt after 800 * i ms, or the error leaves run() through its
\* catch and finally blocks.
FetchFail(i) ==
    /\ UNCHANGED appVars
    /\ job[i].pc \in {"fetch", "refetch"}
    /\ \E kind \in ErrorKinds :
         IF job[i].attempt = 3
         THEN Throw(i, kind)
         ELSE job' = [job EXCEPT ![i].attempt = @ + 1, ![i].allSame = FALSE]
    /\ UNCHANGED <<isRunning, cfg, outcome, runs, rev, store>>

\* part_001:196, the page delay has elapsed.
PageDelayDone(i) ==
    /\ UNCHANGED appVars
    /\ job[i].pc = "pageDelay"
    /\ job' = [job EXCEPT ![i].pc = "loop", ![i].waited = TRUE]
    /\ UNCHANGED <<isRunning, cfg, outcome, runs, rev, store>>

\* part_001:199-220, chunk the accumulated list and enter the batch loop.
StartBatches(i) ==
    /\ UNCHANGED appVars
    /\ job[i].pc = "chunk"
    /\ LET bs == chunk(job[i].products, batchSize)
       IN IF Len(bs) = 0
          THEN /\ EndRun(i, "finished")
          ELSE /\ job' = [job EXCEPT ![i].batches = bs, ![i].bi = 1, ![i].pc = "upsert"]
               /\ UNCHANGED <<isRunning, outcome>>
    /\ UNCHANGED <<cfg, runs, rev, store>>

\* part_001:258-284, upsertBatch: the transaction of batch bi commits.
UpsertCommit(i) ==
    /\ UNCHANGED appVars
    /\ job[i].pc = "upsert"
    /\ store' = SyncUpsertAll(store, job[i].batches[job[i].bi])
    /\ job' = [job EXCEPT ![i].pc = "batchDelay"]
    /\ UNCHANGED <<isRunning, cfg, outcome, runs, rev>>

\* UpsertFail with the first operation of the batch left in the store.
UpsertFail_PartialWrite(i) ==
    /\ UNCHANGED appVars
    /\ job[i].pc = "upsert"
    /\ job[i].batches[job[i].bi] # <<>>
    /\ Throw(i, "PersistenceError")
    /\ store' = SyncUpsertOne(store, job[i].batches[job[i].bi][1])
    /\ UNCHANGED <<isRunning, cfg, outcome, runs, rev>>

\* part_001:282, 221-225: the transaction fails, nothing of the batch is
\* stored and the error ends the run.
UpsertFail(i) ==
    /\ UNCHANGED appVars
    /\ job[i].pc = "upsert"
    /\ job[i].batches[job[i].bi] # <<>>
    /\ Throw(i, "PersistenceError")
    /\ UNCHANGED <<isRunning, cfg, outcome, runs, rev, store>>

\* CatchFinally without the finally block.
CatchFinally_FlagKept(i) ==
    /\ UNCHANGED appVars
    /\ job[i].pc = "catch"
    /\ job' = [job EXCEPT ![i] = IdleJob]
    /\ outcome' = "failed"
    /\ UNCHANGED <<isRunning, cfg, runs, rev, store>>

\* CatchFinally whose catch block throws the error again after logging it.
CatchFinally_Rethrow(i) ==
    /\ UNCHANGED appVars
    /\ job[i].pc = "catch"
    /\ EndRun(i, "threw")
    /\ UNCHANGED <<cfg, runs, rev, store>>

\* part_001:221-225, the catch block logs the error and the finally block
\* clears the flag: run() returns normally.
CatchFinally(i) ==
    /\ UNCHANGED appVars
    /\ job[i].pc = "catch"
    /\ EndRun(i, "failed")
    /\ UNCHANGED <<cfg, runs, rev, store>>

\* part_001:217-220, the batch delay has elapsed: next batch, or the end.
BatchDelayDone(i) ==
    /\ UNCHANGED appVars
    /\ job[i].pc = "batchDelay"
    /\ IF job[i].bi = Len(job[i].batches)
       THEN EndRun(i, "finished")
       ELSE /\ job' = [job EXCEPT ![i].bi = @ + 1, ![i].pc = "upsert"]
            /\ UNCHANGED <<isRunning, outcome>>
    /\ UNCHANGED <<cfg, runs, rev, store>>

\* The upstream catalogue changes (names of its products change).
UpstreamRevise ==
    /\ UNCHANGED appVars
    /\ rev < MaxRev
    /\ ~isRunning
    /\ rev' = rev + 1
    /\ UNCHANGED <<isRunning, cfg, job, outcome, runs, store>>

\* app.controller.ts:29-36, POST /admin/sync/farnell: the response once the
\* awaited run() has ended as the last call of run() did; a run() that
\* throws rejects the handler.
syncFarnell ==
    IF outcome = "threw" THEN [status |-> "rejected"] ELSE [status |-> "ok"]

RunStep(i) ==
    \/ LoopHead(i)
    \/ FetchOk(i)
    \/ FetchFail(i)
    \/ PageDelayDone(i)
    \/ StartBatches(i)
    \/ UpsertCommit(i)
    \/ UpsertFail(i)
    \/ BatchDelayDone(i)
    \/ CatchFinally(i)

----------------------------------------------------------------------------
(* AppController: pure helpers *)

NCalls == 2

Calls == 1..NCalls

MaxNow == 3

\* Number(limit) of searchCatalog: a limit is the sequence of the characters
\* of the query parameter, <<"undefined">> when the parameter is absent.
\* Number of a string of digits is its decimal value, Number("") is 0 and
\* Number of anything else here is NaN; app.controller.ts:52-54.
DefaultSearchLimit == 20

IsDigit(ch) == ch \in {"0", "1", "2", "3", "4", "5", "6", "7", "8", "9"}

DigitValue(ch) ==
    CASE ch = "0" -> 0 [] ch = "1" -> 1 [] ch = "2" -> 2 [] ch = "3" -> 3
      [] ch = "4" -> 4 [] ch = "5" -> 5 [] ch = "6" -> 6 [] ch = "7" -> 7
      [] ch = "8" -> 8 [] ch = "9" -> 9

RECURSIVE DecimalValue(_)
DecimalValue(digits) ==
    IF digits = <<>> THEN 0
    ELSE 10 * DecimalValue(SubSeq(digits, 1, Len(digits) - 1))
         + DigitValue(digits[Len(digits)])

NaN == [finite |-> FALSE, halves |-> 0]

\* Number(str) of a parameter given as its characters: the value in halves
\* (2 is 1, 1 is 0.5) of an optional "-", digits and an optional ".5" or
\* ".0", 0 for the empty string, NaN for the rest (<<"undefined">> among
\* them).
NumberOf(str) ==
    LET s == Trim(str)
        neg == s # <<>> /\ Head(s) = "-"
        body == IF neg THEN Tail(s) ELSE s
        dots == {k \in DOMAIN body : body[k] = "."}
        dot == IF dots = {} THEN Len(body) + 1 ELSE CHOOSE k \in dots : TRUE
        whole == SubSeq(body, 1, dot - 1)
        frac == SubSeq(body, dot + 1, Len(body))
        half == IF frac = <<"5">> THEN 1 ELSE 0
        abs == 2 * DecimalValue(whole) + half
    IN IF s = <<>> THEN [finite |-> TRUE, halves |-> 0]
       ELSE IF /\ whole # <<>>
               /\ \A k \in DOMAIN whole : IsDigit(whole[k])
               /\ IF dots = {} THEN TRUE ELSE frac \in {<<"5">>, <<"0">>}
            THEN [finite |-> TRUE, halves |-> IF neg THEN 0 - abs ELSE abs]
            ELSE NaN

\* Math.floor of a value in halves (a division that rounds down).
FloorOf(halves) == IF halves >= 0 THEN halves \div 2 ELSE 0 - ((1 - halves) \div 2)

\* Number.isFinite(Number(v)) ? Math.max(least, Math.floor(Number(v))) : fallback
ClampFloor(v, least, fallback) ==
    IF NumberOf(v).finite THEN Max(least, FloorOf(NumberOf(v).halves)) ELSE fallback

SafeLimit(limit) == ClampFloor(limit, 1, DefaultSearchLimit)

Chars(w) ==
    CASE w = "Farnell" -> <<"F", "a", "r", "n", "e", "l", "l">>
      [] w = "farnell" -> <<"f", "a", "r", "n", "e", "l", "l">>
      [] w = "newark" -> <<"n", "e", "w", "a", "r", "k">>
      [] w = "element14" -> <<"e", "l", "e", "m", "e", "n", "t", "1", "4">>
      [] w = "mock" -> <<"m", "o", "c", "k">>
      [] w = "acme" -> <<"a", "c", "m", "e">>
      [] w = "true" -> <<"t", "r", "u", "e">>
      [] w = "yes" -> <<"y", "e", "s">>
      [] OTHER -> <<>>

\* parseSupplierCode(value): the code, or "null".
parseSupplierCode(value) ==
    LET normalized == Lower(Trim(value))
    IN CASE value = <<>> -> "null"
         [] normalized = Chars("farnell") -> "farnell"
         [] normalized = Chars("newark") -> "newark"
         [] normalized = Chars("element14") -> "element14"
         [] normalized = Chars("mock") -> "mock"
         [] OTHER -> "null"

\* buildSearchCacheKey(q, limit, supplier)
buildSearchCacheKey(q, limit, supplier) ==
    <<IF supplier = "null" THEN "any" ELSE supplier, limit, Lower(q)>>

\* parseBoolean(value)
parseBoolean(value) ==
    LET normalized == Lower(Trim(value))
    IN normalized \in {<<"1">>, Chars("true"), Chars("yes"), <<"y">>}


\* buildFarnellTerm that looks at the keyword before the id.
buildFarnellTerm_KeywordBeforeId(input) ==
    LET q == Trim(input.q)
    IN CASE Trim(input.term) # <<>> -> Trim(input.term)
         [] Trim(input.mpn) # <<>> -> <<"manuPartNum:">> \o Trim(input.mpn)
         [] Trim(input.keyword) # <<>> -> <<"any:">> \o Trim(input.keyword)
         [] Trim(input.id) # <<>> -> <<"id:">> \o Trim(input.id)
         [] q = <<>> -> <<>>
         [] \E k \in DOMAIN q : IsSpace(q[k]) -> <<"any:">> \o q
         [] \A k \in DOMAIN q : IsDigit(q[k]) -> <<"id:">> \o q
         [] OTHER -> <<"manuPartNum:">> \o q

\* buildFarnellTerm(input): the term, or <<>> for null.  Absent fields of
\* the input are empty.
buildFarnellTerm(input) ==
    LET q == Trim(input.q)
    IN CASE Trim(input.term) # <<>> -> Trim(input.term)
         [] Trim(input.mpn) # <<>> -> <<"manuPartNum:">> \o Trim(input.mpn)
         [] Trim(input.id) # <<>> -> <<"id:">> \o Trim(input.id)
         [] Trim(input.keyword) # <<>> -> <<"any:">> \o Trim(input.keyword)
         [] q = <<>> -> <<>>
         [] \E k \in DOMAIN q : IsSpace(q[k]) -> <<"any:">> \o q
         [] \A k \in DOMAIN q : IsDigit(q[k]) -> <<"id:">> \o q
         [] OTHER -> <<"manuPartNum:">> \o q

\* A query with no field set: the strings empty, the numbers undefined.
NoTerm ==
    [term |-> <<>>, q |-> <<>>, mpn |-> <<>>, id |-> <<>>, keyword |-> <<>>,
     offset |-> <<"undefined">>, numberOfResults |-> <<"undefined">>]

\* name: {contains: query, mode: 'insensitive'}
ContainsInsensitive(name, query) == Includes(Lower(name), Lower(query))

\* The where clause of searchCatalog's first findMany.
MatchLocal(row, query, supplierCode) ==
    /\ row.supplierSku = query \/ ContainsInsensitive(row.name, query)
    /\ supplierCode # "null" => row.supplier = supplierCode

\* findMany({where, take}) without orderBy: any take rows among the matches.
TakeAny(rows, take) ==
    {chosen \in SUBSET rows : Cardinality(chosen) = Min(take, Cardinality(rows))}

\* JSON values of the fields of an upstream entry: no such key, a string,
\* a finite number below ten.
Absent == [t |-> "absent"]

JString(str) == [t |-> "string", v |-> str]

JNumber(n) == [t |-> "number", v |-> n]

\* An entry that is a string, not an object.
JText == [t |-> "text"]

\* isRecord(v)
isRecord(v) == "t" \notin DOMAIN v

\* String(n) of a number below ten.
StringOf(n) == <<CHOOSE ch \in {"0", "1", "2", "3", "4", "5", "6", "7", "8", "9"} :
                    DigitValue(ch) = n>>

RECURSIVE pickString(_, _)
\* pickString(obj, keys): the first usable value, or <<>> for null (no
\* value it returns is empty).
pickString(obj, keys) ==
    IF keys = <<>> THEN <<>>
    ELSE LET v == obj[Head(keys)]
         IN CASE v.t = "string" /\ Trim(v.v) # <<>> -> v.v
              [] v.t = "number" -> StringOf(v.v)
              [] OTHER -> pickString(obj, Tail(keys))

IdentifierKeys == <<"sku", "id", "productCode">>

NameKeys == <<"displayName", "name">>

\* The products value of a container: an array, an object whose product
\* is an array, an object whose product is one value, or no such key.
ProductsArray(list) == [form |-> "array", list |-> list]

ProductsWrapped(list) == [form |-> "wrapped", list |-> list]

ProductsSingle(p) == [form |-> "single", list |-> <<p>>]

ProductsMissing == [form |-> "missing", list |-> <<>>]

\* The .map of farnell.client.ts:196-210 for one entry: Undefined for null.
MapEntry(p) ==
    IF ~isRecord(p) THEN Undefined
    ELSE LET sku == pickString(p, IdentifierKeys)
             name == pickString(p, NameKeys)
         IN IF sku = <<>> \/ name = <<>> THEN Undefined
            ELSE [supplier |-> "farnell", supplierSku |-> sku, name |-> name,
                  raw |-> p]

\* farnell.client.ts:155-211: the products made of the container.
ParseProducts(products) ==
    IF products.form = "missing" THEN <<>>
    ELSE SelectSeq([k \in DOMAIN products.list |-> MapEntry(products.list[k])],
                   LAMBDA m : m # Undefined)

\* The products searchProducts makes of the JSON of a page (every product
\* of a page given by its SKUs has a sku and a displayName).
searchProducts(r) ==
    IF "products" \in DOMAIN r THEN ParseProducts(r.products)
    ELSE PageOf(r.skus, rev)

KeysOf(items) == {SupplierKey("farnell", items[k].supplierSku) : k \in DOMAIN items}

----------------------------------------------------------------------------
(* AppController: one handler invocation *)

\* offset and numberOfResults are the options of the call of
\* searchProducts.  json is history: the products of the 2xx body a search
\* of the admin endpoint got.
IdleCall ==
    [kind |-> "none", pc |-> "idle", query |-> <<>>, safeLimit |-> 0,
     supplier |-> <<>>, supplierCode |-> "null", term |-> <<>>, fetcher |-> FetcherStart,
     items |-> <<>>, rateLimited |-> FALSE, opsAt |-> 0, found |-> {},
     shouldRefresh |-> FALSE, shouldSave |-> FALSE, queries |-> <<>>,
     results |-> <<>>, createdCount |-> 0, updatedCount |-> 0,
     savedCount |-> 0, created |-> 0, resp |-> NoValue, reads |-> 0,
     hit |-> FALSE, rewrote |-> FALSE, prev |-> NoValue,
     json |-> ProductsMissing, offset |-> 0, numberOfResults |-> 0]

EmptyResponse ==
    [source |-> "empty", count |-> 0, items |-> {}, term |-> <<>>, rateLimited |-> FALSE]

\* The handler returns v.
Done(k, v) == [k EXCEPT !.pc = "done", !.resp = v]

\* The error is swallowed and an empty response returned.
Raised_Swallowed(k) == [k EXCEPT !.pc = "done", !.resp = EmptyResponse]

\* The handler's promise rejects.
Raised(k) == [k EXCEPT !.pc = "raised"]

CacheKeyOf(k) == buildSearchCacheKey(k.query, k.safeLimit, k.supplierCode)

\* Some item of the transaction is already stored with the name and raw it
\* carries.
Rewrites(st, items) ==
    \E k \in DOMAIN items : \E row \in st :
        /\ row.supplierKey = SupplierKey("farnell", items[k].supplierSku)
        /\ row.name = items[k].name
        /\ row.raw = RawForStore(items[k])

\* The clock advances.
Tick ==
    /\ now < MaxNow
    /\ now' = now + 1
    /\ UNCHANGED <<syncVars, rev, store, ttlEnv, searchCache, call>>

\* The response has been sent; the slot serves the next request.
Return(c) ==
    /\ call[c].pc \in {"done", "raised"}
    /\ call' = [call EXCEPT ![c] = IdleCall]
    /\ UNCHANGED <<syncVars, rev, store, now, ttlEnv, searchCache>>

\* The response has been sent, and the slot keeps a note of the search
\* when it had missed locally, fetched a page with products and saved it.
ReturnNoted(c) ==
    /\ call[c].pc \in {"done", "raised"}
    /\ call' = [call EXCEPT ![c] =
          [IdleCall EXCEPT !.prev =
              IF /\ call[c].kind = "search"
                 /\ call[c].pc = "done"
                 /\ ~call[c].hit
                 /\ call[c].items # <<>>
              THEN [source |-> "saved", query |-> call[c].query,
                    safeLimit |-> call[c].safeLimit, supplier |-> call[c].supplier,
                    items |-> call[c].resp.items]
              ELSE NoValue]]
    /\ UNCHANGED <<syncVars, rev, store, now, ttlEnv, searchCache>>

----------------------------------------------------------------------------
(* AppController.searchCatalog *)

\* app.controller.ts:49-63: the handler up to its first await.
SearchStart_ExpiredServed(c, q, limit, supplier) ==
    /\ call[c].pc = "idle"
    /\ LET query == Trim(q)
           k == [IdleCall EXCEPT !.kind = "search", !.query = query,
                                 !.safeLimit = SafeLimit(limit),
                                 !.supplier = supplier,
                                 !.prev = call[c].prev,
                                 !.supplierCode = parseSupplierCode(supplier)]
           found == CacheIndex(searchCache, CacheKeyOf(k))
       IN IF query = <<>> \/ (supplier # <<>> /\ k.supplierCode = "null")
          THEN /\ call' = [call EXCEPT ![c] = Done(k, EmptyResponse)]
               /\ UNCHANGED searchCache
          ELSE /\ UNCHANGED searchCache
               /\ call' = [call EXCEPT ![c] =
                     IF found = {} THEN [k EXCEPT !.pc = "local"]
                     ELSE Done([k EXCEPT !.hit = TRUE],
                               searchCache[CHOOSE n \in found : TRUE].value)]
    /\ UNCHANGED <<syncVars, rev, store, now, ttlEnv>>

SearchStart(c, q, limit, supplier) ==
    /\ call[c].pc = "idle"
    /\ LET query == Trim(q)
           k == [IdleCall EXCEPT !.kind = "search", !.query = query,
                                 !.safeLimit = SafeLimit(limit),
                                 !.supplier = supplier,
                                 !.prev = call[c].prev,
                                 !.supplierCode = parseSupplierCode(supplier)]
           cached == getSearchCache(searchCache, CacheKeyOf(k), now)
       IN IF query = <<>> \/ (supplier # <<>> /\ k.supplierCode = "null")
          THEN /\ call' = [call EXCEPT ![c] = Done(k, EmptyResponse)]
               /\ UNCHANGED searchCache
          ELSE /\ searchCache' = cached.cache
               /\ call' = [call EXCEPT ![c] =
                     IF cached.value # NoValue
                     THEN Done([k EXCEPT !.hit = TRUE], cached.value)
                     ELSE [k EXCEPT !.pc = "local"]]
    /\ UNCHANGED <<syncVars, rev, store, now, ttlEnv>>

\* SearchLocal without the test of the supplier filter after a local miss.
SearchLocal_NoSupplierGuard(c) ==
    /\ call[c].kind = "search"
    /\ call[c].pc = "local"
    /\ LET k == [call[c] EXCEPT !.reads = @ + 1]
           matches == {row \in store : MatchLocal(row, k.query, k.supplierCode)}
       IN \E localItems \in TakeAny(matches, k.safeLimit) :
            IF localItems # {}
            THEN LET result == [source |-> "local", count |-> Cardinality(localItems),
                                items |-> localItems, term |-> <<>>,
                                rateLimited |-> FALSE]
                 IN /\ searchCache' = setSearchCache(searchCache, CacheKeyOf(k), result, now)
                    /\ call' = [call EXCEPT ![c] = Done(k, result)]
            ELSE /\ UNCHANGED searchCache
                 /\ call' = [call EXCEPT ![c] =
                       LET t == buildFarnellTerm([NoTerm EXCEPT !.q = k.query])
                       IN [k EXCEPT !.pc = "fetch", !.fetcher = FetcherStart,
                                    !.offset = 0, !.numberOfResults = k.safeLimit,
                                    !.term = IF t = <<>> THEN <<"any:">> \o k.query
                                             ELSE t]]
    /\ UNCHANGED <<syncVars, rev, store, now, ttlEnv>>

\* SearchLocal that asks the upstream whatever the local lookup found.
SearchLocal_AlwaysFetch(c) ==
    /\ call[c].kind = "search"
    /\ call[c].pc = "local"
    /\ LET k == [call[c] EXCEPT !.reads = @ + 1]
           t == buildFarnellTerm([NoTerm EXCEPT !.q = k.query])
       IN call' = [call EXCEPT ![c] =
             IF k.supplierCode # "null" /\ k.supplierCode # "farnell"
             THEN Done(k, EmptyResponse)
             ELSE [k EXCEPT !.pc = "fetch", !.fetcher = FetcherStart,
                            !.offset = 0, !.numberOfResults = k.safeLimit,
                            !.term = IF t = <<>> THEN <<"any:">> \o k.query ELSE t]]
    /\ UNCHANGED <<syncVars, rev, store, now, ttlEnv, searchCache>>

\* app.controller.ts:65-92: the local findMany has settled.
SearchLocal(c) ==
    /\ call[c].kind = "search"
    /\ call[c].pc = "local"
    /\ LET k == [call[c] EXCEPT !.reads = @ + 1]
           matches == {row \in store : MatchLocal(row, k.query, k.supplierCode)}
       IN \E localItems \in TakeAny(matches, k.safeLimit) :
            IF localItems # {}
            THEN LET result == [source |-> "local", count |-> Cardinality(localItems),
                                items |-> localItems, term |-> <<>>,
                                rateLimited |-> FALSE]
                 IN /\ searchCache' = setSearchCache(searchCache, CacheKeyOf(k), result, now)
                    /\ call' = [call EXCEPT ![c] = Done(k, result)]
            ELSE /\ UNCHANGED searchCache
                 /\ call' = [call EXCEPT ![c] =
                       IF k.supplierCode # "null" /\ k.supplierCode # "farnell"
                       THEN Done(k, EmptyResponse)
                       ELSE LET t == buildFarnellTerm([NoTerm EXCEPT !.q = k.query])
                            IN [k EXCEPT !.pc = "fetch", !.fetcher = FetcherStart,
                                         !.offset = 0, !.numberOfResults = k.safeLimit,
                                         !.term = IF t = <<>> THEN <<"any:">> \o k.query
                                                  ELSE t]]
    /\ UNCHANGED <<syncVars, rev, store, now, ttlEnv>>

\* SearchFetch that leaves an empty response out of the cache.
SearchFetch_MissNotCached(c, r) ==
    /\ call[c].kind = "search"
    /\ call[c].pc = "fetch"
    /\ LET f == FetcherStep(call[c].fetcher, r)
           k == [call[c] EXCEPT !.fetcher = f]
           items == IF f.state = "ok" THEN searchProducts(r) ELSE <<>>
           limited == f.state = "rateLimited"
           result == [source |-> "farnell", count |-> 0, items |-> {},
                      term |-> k.term, rateLimited |-> limited]
       IN CASE f.state = "pending" ->
                 /\ call' = [call EXCEPT ![c] = k]
                 /\ UNCHANGED searchCache
            [] f.state = "error" ->
                 /\ call' = [call EXCEPT ![c] = Raised(k)]
                 /\ UNCHANGED searchCache
            [] OTHER ->
                 IF Len(items) = 0
                 THEN /\ UNCHANGED searchCache
                      /\ call' = [call EXCEPT ![c] =
                            Done([k EXCEPT !.rateLimited = limited], result)]
                 ELSE /\ call' = [call EXCEPT ![c] =
                            [k EXCEPT !.items = items, !.opsAt = now, !.pc = "persist"]]
                      /\ UNCHANGED searchCache
    /\ UNCHANGED <<syncVars, rev, store, now, ttlEnv>>

\* app.controller.ts:94-119 with one pass of fetchJsonWithRetry: the
\* request of searchProducts gets the exchange r.
SearchFetch(c, r) ==
    /\ call[c].kind = "search"
    /\ call[c].pc = "fetch"
    /\ LET f == FetcherStep(call[c].fetcher, r)
           k == [call[c] EXCEPT !.fetcher = f]
           items == IF f.state = "ok" THEN searchProducts(r) ELSE <<>>
           limited == f.state = "rateLimited"
           result == [source |-> "farnell", count |-> 0, items |-> {},
                      term |-> k.term, rateLimited |-> limited]
       IN CASE f.state = "pending" ->
                 /\ call' = [call EXCEPT ![c] = k]
                 /\ UNCHANGED searchCache
            [] f.state = "error" ->
                 /\ call' = [call EXCEPT ![c] = Raised(k)]
                 /\ UNCHANGED searchCache
            [] OTHER ->
                 IF Len(items) = 0
                 THEN /\ searchCache' = setSearchCache(searchCache, CacheKeyOf(k), result, now)
                      /\ call' = [call EXCEPT ![c] =
                            Done([k EXCEPT !.rateLimited = limited], result)]
                 ELSE /\ call' = [call EXCEPT ![c] =
                            [k EXCEPT !.items = items, !.opsAt = now, !.pc = "persist"]]
                      /\ UNCHANGED searchCache
    /\ UNCHANGED <<syncVars, rev, store, now, ttlEnv>>

\* SearchPersist whose operations insert without looking for the row of
\* their key.
SearchPersist_BlindInsert(c) ==
    /\ call[c].kind = "search"
    /\ call[c].pc = "persist"
    /\ store' = store \cup AppUpsertAll({}, call[c].items, call[c].opsAt)
    /\ call' = [call EXCEPT ![c].pc = "readback",
                            ![c].rewrote = Rewrites(store, call[c].items)]
    /\ UNCHANGED <<syncVars, rev, now, ttlEnv, searchCache>>

\* app.controller.ts:142: the transaction of searchCatalog commits.
SearchPersist(c) ==
    /\ call[c].kind = "search"
    /\ call[c].pc = "persist"
    /\ store' = AppUpsertAll(store, call[c].items, call[c].opsAt)
    /\ call' = [call EXCEPT ![c].pc = "readback",
                            ![c].rewrote = Rewrites(store, call[c].items)]
    /\ UNCHANGED <<syncVars, rev, now, ttlEnv, searchCache>>

\* The transaction of searchCatalog fails.
SearchPersistFail(c) ==
    /\ call[c].kind = "search"
    /\ call[c].pc = "persist"
    /\ call' = [call EXCEPT ![c] = Raised(call[c])]
    /\ UNCHANGED <<syncVars, rev, store, now, ttlEnv, searchCache>>

\* app.controller.ts:144-160: the second findMany has settled.
SearchReadback(c) ==
    /\ call[c].kind = "search"
    /\ call[c].pc = "readback"
    /\ LET k == [call[c] EXCEPT !.reads = @ + 1]
           saved == {row \in store : row.supplierKey \in KeysOf(k.items)}
       IN \E savedItems \in TakeAny(saved, k.safeLimit) :
            LET result == [source |-> "farnell", count |-> Cardinality(savedItems),
                           items |-> savedItems, term |-> k.term,
                           rateLimited |-> k.rateLimited]
            IN /\ searchCache' = setSearchCache(searchCache, CacheKeyOf(k), result, now)
               /\ call' = [call EXCEPT ![c] = Done(k, result)]
    /\ UNCHANGED <<syncVars, rev, store, now, ttlEnv>>

SearchStep(c) ==
    \/ SearchLocal(c)
    \/ SearchPersist(c)
    \/ SearchPersistFail(c)
    \/ SearchReadback(c)

----------------------------------------------------------------------------
(* AppController.getProduct, searchFarnellBatch and upsertFarnellProducts *)

\* app.controller.ts:247-262: the response once the upstream was asked.
ProductResponse(k, item) ==
    IF item = {}
    THEN [source |-> "empty", item |-> {}, term |-> k.term, rateLimited |-> k.rateLimited]
    ELSE [source |-> "farnell", item |-> item, term |-> k.term,
          rateLimited |-> k.rateLimited]

\* app.controller.ts:211-215: the handler up to its first await.
ProductStart(c, supplierSku, refresh) ==
    /\ call[c].pc = "idle"
    /\ LET sku == Trim(supplierSku)
           k == [IdleCall EXCEPT !.kind = "product", !.query = sku,
                                 !.shouldRefresh = parseBoolean(refresh)]
       IN call' = [call EXCEPT ![c] =
             IF sku = <<>>
             THEN Done(k, [source |-> "empty", item |-> {}, term |-> <<>>,
                           rateLimited |-> FALSE])
             ELSE [k EXCEPT !.pc = "findFirst"]]
    /\ UNCHANGED <<syncVars, rev, store, now, ttlEnv, searchCache>>

\* app.controller.ts:215-221, 265-270: findFirst has settled.
ProductFindFirst(c) ==
    /\ call[c].kind = "product"
    /\ call[c].pc = "findFirst"
    /\ LET k == [call[c] EXCEPT !.reads = @ + 1]
           item == {row \in store : row.supplier = "farnell" /\ row.supplierSku = k.query}
           t == buildFarnellTerm([NoTerm EXCEPT !.id = k.query])
       IN call' = [call EXCEPT ![c] =
             IF item = {} \/ k.shouldRefresh
             THEN [k EXCEPT !.found = item, !.pc = "fetch", !.fetcher = FetcherStart,
                            !.offset = 0, !.numberOfResults = 1,
                            !.term = IF t = <<>> THEN <<"id:">> \o k.query ELSE t]
             ELSE Done(k, [source |-> "local", item |-> item, term |-> <<>>,
                           rateLimited |-> FALSE])]
    /\ UNCHANGED <<syncVars, rev, store, now, ttlEnv, searchCache>>

\* ProductFetch that forgets the row of findFirst when nothing was fetched.
ProductFetch_LocalDropped(c, r) ==
    /\ call[c].kind = "product"
    /\ call[c].pc = "fetch"
    /\ LET f == FetcherStep(call[c].fetcher, r)
           k == [call[c] EXCEPT !.fetcher = f, !.rateLimited = f.state = "rateLimited"]
           fetched == IF f.state = "ok" THEN searchProducts(r) ELSE <<>>
       IN call' = [call EXCEPT ![c] =
             CASE f.state = "pending" -> k
               [] f.state = "error" -> Raised(k)
               [] Len(fetched) > 0 -> [k EXCEPT !.items = fetched, !.pc = "existing"]
               [] OTHER -> Done(k, ProductResponse(k, {}))]
    /\ UNCHANGED <<syncVars, rev, store, now, ttlEnv, searchCache>>

\* app.controller.ts:224-262 with one pass of fetchJsonWithRetry.
ProductFetch(c, r) ==
    /\ call[c].kind = "product"
    /\ call[c].pc = "fetch"
    /\ LET f == FetcherStep(call[c].fetcher, r)
           k == [call[c] EXCEPT !.fetcher = f, !.rateLimited = f.state = "rateLimited"]
           fetched == IF f.state = "ok" THEN searchProducts(r) ELSE <<>>
       IN call' = [call EXCEPT ![c] =
             CASE f.state = "pending" -> k
               [] f.state = "error" -> Raised(k)
               [] Len(fetched) > 0 -> [k EXCEPT !.items = fetched, !.pc = "existing"]
               [] OTHER -> Done(k, ProductResponse(k, k.found))]
    /\ UNCHANGED <<syncVars, rev, store, now, ttlEnv, searchCache>>

\* app.controller.ts:241-262: findUnique has settled.
ProductFindUnique(c) ==
    /\ call[c].kind = "product"
    /\ call[c].pc = "findUnique"
    /\ LET k == [call[c] EXCEPT !.reads = @ + 1]
           supplierKey == SupplierKey("farnell", k.items[1].supplierSku)
           item == {row \in store : row.supplierKey = supplierKey}
       IN call' = [call EXCEPT ![c] = Done(k, ProductResponse(k, item))]
    /\ UNCHANGED <<syncVars, rev, store, now, ttlEnv, searchCache>>

\* results.push of searchFarnellBatch
BatchResult(term, count, error) == [term |-> term, count |-> count, error |-> error]

RECURSIVE BatchLoop(_)
\* app.controller.ts:333-385: the for loop from its head to the next await,
\* or to the return.
BatchLoop(k) ==
    IF k.queries = <<>>
    THEN Done(k, [count |-> Len(k.results), results |-> k.results,
                  saves |-> k.shouldSave, savedCount |-> k.savedCount,
                  createdCount |-> k.createdCount, updatedCount |-> k.updatedCount])
    ELSE LET termResolved == buildFarnellTerm(Head(k.queries))
         IN IF termResolved = <<>>
            THEN BatchLoop([k EXCEPT !.queries = Tail(@),
                     !.results = Append(@, BatchResult(<<>>, 0, "missing query"))])
            ELSE [k EXCEPT !.pc = "fetch", !.fetcher = FetcherStart,
                           !.offset = ClampFloor(Head(k.queries).offset, 0, 0),
                           !.numberOfResults =
                               ClampFloor(Head(k.queries).numberOfResults, 1, 1),
                           !.term = termResolved]

\* The iteration of the for loop ends with the push of its result.
BatchPush(k, items) ==
    BatchLoop([k EXCEPT !.queries = Tail(@),
                        !.results = Append(@, BatchResult(k.term, Len(items), ""))])

\* normalizeBatchBody(body) for a body that is an array of strings, and
\* app.controller.ts:320-333.
BatchStart(c, body, save) ==
    /\ call[c].pc = "idle"
    /\ call' = [call EXCEPT ![c] =
          BatchLoop([IdleCall EXCEPT !.kind = "batch",
                        !.queries = [n \in DOMAIN body |-> [NoTerm EXCEPT !.q = body[n]]],
                        !.shouldSave = parseBoolean(save)])]
    /\ UNCHANGED <<syncVars, rev, store, now, ttlEnv, searchCache>>

\* normalizeBatchBody(body) for a body that is an array of objects with
\* the string fields term, q, mpn, id and keyword (absent ones empty), and
\* app.controller.ts:320-333.
BatchStartQueries(c, body, save) ==
    /\ call[c].pc = "idle"
    /\ call' = [call EXCEPT ![c] =
          BatchLoop([IdleCall EXCEPT !.kind = "batch",
                        !.queries = body,
                        !.shouldSave = parseBoolean(save)])]
    /\ UNCHANGED <<syncVars, rev, store, now, ttlEnv, searchCache>>

\* app.controller.ts:356-375 with one pass of fetchJsonWithRetry.
BatchFetch(c, r) ==
    /\ call[c].kind = "batch"
    /\ call[c].pc = "fetch"
    /\ LET f == FetcherStep(call[c].fetcher, r)
           k == [call[c] EXCEPT !.fetcher = f]
           items == IF f.state = "ok" THEN searchProducts(r) ELSE <<>>
       IN call' = [call EXCEPT ![c] =
             CASE f.state = "pending" -> k
               [] f.state \in {"error", "rateLimited"} -> Raised(k)
               [] k.shouldSave /\ Len(items) > 0 ->
                    [k EXCEPT !.items = items, !.pc = "existing"]
               [] OTHER -> BatchPush(k, items)]
    /\ UNCHANGED <<syncVars, rev, store, now, ttlEnv, searchCache>>

\* app.controller.ts:410-437: the findMany of upsertFarnellProducts has
\* settled and the operations are built.
UpsertExisting(c) ==
    /\ call[c].kind \in {"product", "batch"}
    /\ call[c].pc = "existing"
    /\ LET k == call[c]
           existingKeys == {row.supplierKey : row \in store} \cap KeysOf(k.items)
           created == Cardinality({n \in DOMAIN k.items :
                          SupplierKey("farnell", k.items[n].supplierSku) \notin existingKeys})
       IN call' = [call EXCEPT ![c] =
             [k EXCEPT !.reads = @ + 1, !.created = created, !.opsAt = now,
                       !.pc = "persist"]]
    /\ UNCHANGED <<syncVars, rev, store, now, ttlEnv, searchCache>>

\* app.controller.ts:439-440: the transaction of upsertFarnellProducts
\* commits, and the caller goes on.
UpsertProducts(c) ==
    /\ call[c].kind \in {"product", "batch"}
    /\ call[c].pc = "persist"
    /\ store' = AppUpsertAll(store, call[c].items, call[c].opsAt)
    /\ LET k == [call[c] EXCEPT !.rewrote = Rewrites(store, call[c].items)]
       IN call' = [call EXCEPT ![c] =
             IF k.kind = "product" THEN [k EXCEPT !.pc = "findUnique"]
             ELSE BatchPush([k EXCEPT !.savedCount = @ + Len(k.items),
                                      !.createdCount = @ + k.created,
                                      !.updatedCount = @ + Len(k.items) - k.created],
                            k.items)]
    /\ UNCHANGED <<syncVars, rev, now, ttlEnv, searchCache>>

\* The transaction of upsertFarnellProducts fails.
UpsertProductsFail(c) ==
    /\ call[c].kind \in {"product", "batch"}
    /\ call[c].pc = "persist"
    /\ call' = [call EXCEPT ![c] = Raised(call[c])]
    /\ UNCHANGED <<syncVars, rev, store, now, ttlEnv, searchCache>>

DefaultAdminTerm == <<"any:raspberry pi">>

\* searchFarnell up to the call of searchProducts (app.controller.ts:273-294)
AdminStart(c, input) ==
    /\ call[c].pc = "idle"
    /\ call' = [call EXCEPT ![c] =
          [IdleCall EXCEPT !.kind = "admin", !.pc = "fetch",
              !.offset = ClampFloor(input.offset, 0, 0),
              !.numberOfResults = ClampFloor(input.numberOfResults, 1, 1),
              !.term = IF buildFarnellTerm(input) = <<>> THEN DefaultAdminTerm
                       ELSE buildFarnellTerm(input)]]
    /\ UNCHANGED <<syncVars, rev, store, now, ttlEnv, searchCache>>

\* One pass of fetchJsonWithRetry for searchFarnell, and with a 2xx the
\* parse of the body and the return (app.controller.ts:294-300): nothing
\* is caught, a rate limit raises as any other error does.
AdminFetch(c, r) ==
    /\ call[c].kind = "admin"
    /\ call[c].pc = "fetch"
    /\ LET f == FetcherStep(call[c].fetcher, r)
           k == [call[c] EXCEPT !.fetcher = f]
           items == searchProducts(r)
       IN call' = [call EXCEPT ![c] =
             CASE f.state = "pending" -> k
               [] f.state \in {"error", "rateLimited"} -> Raised(k)
               [] OTHER ->
                    Done([k EXCEPT !.json = IF "products" \in DOMAIN r
                                            THEN r.products
                                            ELSE ProductsArray(<<>>)],
                         [count |-> Len(items), items |-> items, term |-> k.term])]
    /\ UNCHANGED <<syncVars, rev, store, now, ttlEnv, searchCache>>

ProductStep(c) ==
    \/ ProductFindFirst(c)
    \/ ProductFindUnique(c)
    \/ UpsertExisting(c)
    \/ UpsertProducts(c)
    \/ UpsertProductsFail(c)

\* The process after construction, with the configuration c.
InitWith(c) ==
    /\ isRunning = FALSE
    /\ cfg = c
    /\ job = [i \in Inv |-> IdleJob]
    /\ outcome = "none"
    /\ runs = 0
    /\ rev = 1
    /\ store = {}
    /\ now = 1
    /\ ttlEnv = <<>>
    /\ searchCache = <<>>
    /\ call = [n \in Calls |-> IdleCall]

\* Triggers arriving at any time, runs of one page each, a changing upstream.
Init == \E c \in FlightConfigs : InitWith(c)

Next ==
    \/ \E i \in Inv : Trigger(i)
    \/ \E i \in Inv : RunStep(i)
    \/ UpstreamRevise

Spec == Init /\ [][Next]_vars

\* One run on its own, under every configuration of SyncConfigs.
PagingInit == \E c \in SyncConfigs : InitWith(c)

PagingNext ==
    \/ runs = 0 /\ Trigger(1)
    \/ RunStep(1)

PagingSpec == PagingInit /\ [][PagingNext]_vars

\* Triggers and runs against an upstream whose catalogue stays as it is.
LiveNext ==
    \/ \E i \in Inv : Trigger(i)
    \/ \E i \in Inv : RunStep(i)

\* The scheduler runs every started step of run() to its end: a timer
\* fires, a pending fetch or transaction settles.
FairSpec ==
    /\ InitWith([BaseConfig EXCEPT !.maxPages = 2])
    /\ [][LiveNext]_vars
    /\ \A i \in Inv : WF_vars(RunStep(i))

----------------------------------------------------------------------------
(* The HTTP handlers and their environment *)

TtlOptions == {<<>>, <<"0">>, <<"2">>}

\* Pages that list products of the catalogue in its order, each one once.
CataloguePages ==
    {skus \in SkuPages : \A m, n \in DOMAIN skus :
        m < n => \E a, b \in 1..NSku :
                    a < b /\ skus[m] = <<SkuLetters[a]>> /\ skus[n] = <<SkuLetters[b]>>}

\* What the upstream can answer to one request.
Exchanges ==
    {HttpOk(skus) : skus \in CataloguePages}
      \cup {HttpStatus(429, <<"Too", " ", "Many", " ", "Requests">>, ra) : ra \in {0, 1}}
      \cup {HttpStatus(403, RateLimitBody, 0), HttpStatus(403, ForbiddenBody, 0),
            HttpStatus(500, <<"Internal">>, 0), HttpThrows}

SearchQueries == {<<" ">>, <<" ", "A">>}

SearchLimits == {<<"undefined">>, <<"1">>}

SupplierOptions == {<<>>, Chars("mock"), Chars("acme")}

AppInit(ttls) ==
    /\ isRunning = FALSE
    /\ cfg = [BaseConfig EXCEPT !.maxPages = 2]
    /\ job = [i \in Inv |-> IdleJob]
    /\ outcome = "none"
    /\ runs = 0
    /\ rev = 1
    /\ store = {}
    /\ now = 1
    /\ ttlEnv \in ttls
    /\ searchCache = <<>>
    /\ call = [n \in Calls |-> IdleCall]

\* Searches served one after the other, the clock running.
SearchInit == AppInit(TtlOptions)

SearchNext ==
    \/ \E q \in SearchQueries, limit \in SearchLimits, supplier \in SupplierOptions :
          SearchStart(1, q, limit, supplier)
    \/ \E r \in Exchanges : SearchFetch(1, r)
    \/ SearchStep(1)
    \/ Return(1)
    \/ Tick

SearchSpec == SearchInit /\ [][SearchNext]_vars

\* One search after the other against an upstream that answers in every
\* way, retry after retry.
AllExchanges ==
    Exchanges \cup {HttpStatus(403, QpsBody, 0), HttpStatus(429, RateLimitBody, 2)}

FetcherNext ==
    \/ SearchStart(1, <<"A">>, <<"undefined">>, <<>>)
    \/ \E r \in AllExchanges : SearchFetch(1, r)
    \/ SearchStep(1)
    \/ Return(1)

FetcherSpec == AppInit({<<"0">>}) /\ [][FetcherNext]_vars

\* The same search again and again, with and without the cache.
RepeatNext ==
    \/ SearchStart(1, <<"A">>, <<"undefined">>, <<>>)
    \/ \E skus \in CataloguePages : SearchFetch(1, HttpOk(skus))
    \/ SearchStep(1)
    \/ ReturnNoted(1)
    \/ Tick

RepeatSpec == AppInit({<<>>, <<"0">>}) /\ [][RepeatNext]_vars

\* The sync runs of StoreSpec and WriteSpec: their pages come from the
\* catalogue and their fetches and transactions succeed.
CatalogueRun ==
    \/ LoopHead(1)
    \/ \E skus \in CataloguePages : FetchPage(1, skus)
    \/ PageDelayDone(1)
    \/ StartBatches(1)
    \/ UpsertCommit(1)
    \/ BatchDelayDone(1)

StoreInit == AppInit({<<"0">>})

\* Every write path at work at once: a sync run, and a handler invocation
\* that searches, looks a product up or saves a batch, against an upstream
\* whose catalogue changes.  Nothing is cached.
StoreNext ==
    \/ runs = 0 /\ Trigger(1)
    \/ CatalogueRun
    \/ SearchStart(1, <<"A">>, <<"undefined">>, <<>>)
    \/ \E skus \in CataloguePages : SearchFetch(1, HttpOk(skus))
    \/ SearchStep(1)
    \/ \E refresh \in {<<>>, Chars("true")} : ProductStart(1, <<"A">>, refresh)
    \/ \E skus \in CataloguePages : ProductFetch(1, HttpOk(skus))
    \/ ProductStep(1)
    \/ \E save \in {<<>>, <<"1">>} : BatchStart(1, <<<<"A">>>>, save)
    \/ \E skus \in CataloguePages : BatchFetch(1, HttpOk(skus))
    \/ Return(1)
    \/ UpstreamRevise

StoreSpec == StoreInit /\ [][StoreNext]_vars

\* The write paths one after the other, the clock running: a handler
\* starts while no run is active, the run while no handler is.
WriteNext ==
    \/ call[1].pc = "idle" /\ Trigger(1)
    \/ call[1].pc = "idle" /\ CatalogueRun
    \/ ~isRunning /\ SearchStart(1, <<"A">>, <<"undefined">>, <<>>)
    \/ \E skus \in CataloguePages : SearchFetch(1, HttpOk(skus))
    \/ SearchStep(1)
    \/ ~isRunning /\ ProductStart(1, <<"A">>, Chars("true"))
    \/ \E skus \in CataloguePages : ProductFetch(1, HttpOk(skus))
    \/ ProductStep(1)
    \/ ~isRunning /\ BatchStart(1, <<<<"A">>>>, <<"1">>)
    \/ \E skus \in CataloguePages : BatchFetch(1, HttpOk(skus))
    \/ Return(1)
    \/ Tick

WriteSpec == StoreInit /\ [][WriteNext]_vars

----------------------------------------------------------------------------
(* Claims about the sync run *)

Active == {i \in Inv : job[i].pc # "idle"}

\* A call of run() returns at its first test, logging 'skipped'.
SkipStep == outcome' = "skipped" /\ outcome # "skipped"

\* C1: at most one sync run is active at any time; a trigger that arrives
\* while a run is active fetches no page, writes nothing to the store and
\* starts no run, then or later: a run only starts at a step taken with the
\* flag clear.
C1_SingleFlight ==
    /\ [](Cardinality(Active) <= 1 /\ (isRunning <=> Active # {}))
    /\ [][SkipStep /\ isRunning => UNCHANGED <<isRunning, job, runs, store>>]_vars
    /\ [][\A i \in Inv : job[i].pc = "idle" /\ job'[i].pc # "idle"
                           => ~isRunning /\ Active = {}]_vars

C1_Witness ==
    /\ outcome = "skipped"
    /\ \E i \in Inv : job[i].pc = "upsert" /\ job[i].fetches > 0

\* C2: every run that starts ends with the flag cleared, after a normal
\* finish, a failed page fetch or a failed batch transaction alike, and no
\* trigger arriving while the flag is clear is skipped.
C2_RunEnds ==
    /\ isRunning ~> ~isRunning
    /\ [][\A i \in Inv : job[i].pc # "idle" /\ job'[i].pc = "idle"
                           => ~isRunning' /\ outcome' \in {"finished", "failed"}]_vars
    /\ [][~isRunning => ~SkipStep]_vars

C2_Witness == runs = 2 /\ outcome = "failed" /\ ~isRunning

\* C3: at every point of a run no two entries of the accumulator share a
\* supplierSku.
C3_NoDuplicateSku ==
    \A i \in Inv :
        \A a, b \in DOMAIN job[i].products :
            a # b => job[i].products[a].supplierSku # job[i].products[b].supplierSku

C3_Witness ==
    \E i \in Inv :
        /\ Len(job[i].products) = 2
        /\ job[i].pageIndex = 3
        /\ job[i].pc = "pageDelay"

\* C4 (as claimed): when the accumulation ends the number of accumulated
\* entries is at most targetTotal and at most maxTotal.
C4_CountWithinCaps ==
    \A i \in Inv :
        job[i].pc = "chunk" =>
            Len(job[i].products) <= targetTotal /\ Len(job[i].products) <= maxTotal

\* The upstream stub of C5 has answered every request of the run, one and
\* the same single-entry page each time, and the caps leave room for more.
SameSinglePageRun(i) ==
    /\ job[i].pc = "chunk"
    /\ job[i].fetches > 0
    /\ job[i].allSame
    /\ Min(targetTotal, maxTotal) >= 2
    /\ maxPages >= 4

\* C5 (as claimed): against an upstream that returns the same single-entry
\* page for every request the run fetches exactly two pages and stops by
\* the duplicate-streak rule.
C5_StopsAfterTwoPages ==
    \A i \in Inv :
        SameSinglePageRun(i) => job[i].fetches = 2 /\ job[i].stop = "dupStreak"

\* C5 (amended): against such an upstream the run fetches exactly three
\* pages, the first adding the entry and the next two fully duplicate, and
\* stops by the duplicate-streak rule, not by maxPages.
C5_StopsAfterThreePages ==
    \A i \in Inv :
        SameSinglePageRun(i) =>
            /\ job[i].fetches = 3
            /\ job[i].stop = "dupStreak"
            /\ job[i].pageIndex < maxPages

C5_Witness == \E i \in Inv : SameSinglePageRun(i)

\* A first fetch of a page index has returned an empty page.
EmptyPageStep(i) ==
    /\ job[i].pc = "fetch"
    /\ \/ job'[i].pc = "refetch"
       \/ job'[i].pc = "chunk" /\ job'[i].stop = "empty"

\* C6: with auto-detection on and the run in item-offset mode, an empty
\* page at index > 0 makes the run switch to page-index mode and fetch the
\* same index again with offset = pageIndex, once per run; the mode never
\* goes back to item-offset during the run.
C6_ModeSwitch ==
    /\ [][\A i \in Inv :
            EmptyPageStep(i) /\ allowAutoMode /\ job[i].paginationMode = "item"
              /\ job[i].pageIndex > 0
            => /\ job'[i].pc = "refetch"
               /\ job'[i].paginationMode = "page"
               /\ job'[i].pageIndex = job[i].pageIndex
               /\ job'[i].offset = job[i].pageIndex
               /\ job'[i].fetches = job[i].fetches + 1]_vars
    /\ [][\A i \in Inv :
            job[i].pc = "refetch" /\ job'[i].pc = "refetch"
            => job'[i].fetches = job[i].fetches]_vars
    /\ [][\A i \in Inv :
            job[i].paginationMode = "page" /\ job[i].pc # "idle" /\ job'[i].pc # "idle"
            => job'[i].paginationMode = "page"]_vars
    /\ [](\A i \in Inv : job[i].switches <= 1)

C6_Witness ==
    \E i \in Inv :
        /\ job[i].switches = 1
        /\ job[i].pc = "pageDelay"
        /\ job[i].paginationMode = "page"
        /\ job[i].pageIndex = 2

----------------------------------------------------------------------------
(* Claims about the store *)

RowsAt(st, supplier, sku) ==
    {row \in st : row.supplier = supplier /\ row.supplierSku = sku}

\* The write of product p leaves one row for it in the store after the
\* step, with p's name and raw (and the timestamp t when the path writes
\* one: t = 0 for the sync batch, which writes none); when the store held
\* the same name and raw before, nothing else of the row has changed.
WrittenOnce(p, t) ==
    LET before == RowsAt(store, "farnell", p.supplierSku)
        after == RowsAt(store', "farnell", p.supplierSku)
    IN /\ Cardinality(after) = 1
       /\ \A row \in after :
            /\ row.name = p.name
            /\ row.raw = p.raw
            /\ row.supplierKey = <<"farnell", ":">> \o p.supplierSku
            /\ t # 0 => row.sourceUpdatedAt = t
       /\ \A old \in before :
            old.name = p.name /\ old.raw = p.raw =>
              after = {[old EXCEPT !.sourceUpdatedAt = IF t # 0 THEN t ELSE @]}

\* The rows of the products that are not among items stay as they are, and
\* no row appears for them.
OthersKept(items) ==
    LET skus == {items[n].supplierSku : n \in DOMAIN items}
    IN {row \in store : row.supplierSku \notin skus}
         = {row \in store' : row.supplierSku \notin skus}

\* The transaction of a sync batch commits.
SyncWrites(i) == job[i].pc = "upsert" /\ job'[i].pc \notin {"upsert", "catch"}

\* The transaction of a search, a product refresh or a batch save commits.
AppWrites(c) == call[c].pc = "persist" /\ call'[c].pc \notin {"persist", "raised"}

\* C7: a write of (supplier, supplierSku, name, raw), through the sync
\* batch, the search save, the product refresh or the batch save, leaves
\* exactly one row for the supplierKey; a second write of the same values
\* leaves that one row, carrying the second write's fields.
C7_UpsertIdempotent ==
    [][/\ \A i \in Inv : SyncWrites(i) =>
             /\ OthersKept(job[i].batches[job[i].bi])
             /\ \A n \in DOMAIN job[i].batches[job[i].bi] :
                    WrittenOnce(job[i].batches[job[i].bi][n], 0)
       /\ \A c \in Calls : AppWrites(c) =>
             /\ OthersKept(call[c].items)
             /\ \A n \in DOMAIN call[c].items :
                    WrittenOnce(call[c].items[n], call[c].opsAt)]_vars

\* A product refresh has written, after the clock moved, what the store
\* already held.
C7_Witness ==
    /\ call[1].kind = "product"
    /\ call[1].pc = "findUnique"
    /\ call[1].rewrote
    /\ call[1].opsAt > 1
    /\ \E row \in store :
         row.supplierSku = <<"A">> /\ row.sourceUpdatedAt = call[1].opsAt

\* C8: every stored row has supplierKey = supplier + ":" + supplierSku, no
\* two rows share a supplierKey, and so no two rows share a supplier and
\* SKU, whatever sync runs, searches, product lookups and batch saves have
\* interleaved.
C8_KeyInvariant ==
    /\ \A row \in store : row.supplierKey = <<row.supplier, ":">> \o row.supplierSku
    /\ \A r1, r2 \in store : r1.supplierKey = r2.supplierKey => r1 = r2
    /\ \A r1, r2 \in store :
         r1.supplier = r2.supplier /\ r1.supplierSku = r2.supplierSku => r1 = r2

\* A search has rewritten a row while the sync run that wrote it first was
\* between two batches.
C8_Witness ==
    /\ job[1].pc = "batchDelay"
    /\ call[1].kind = "search"
    /\ call[1].pc = "readback"
    /\ call[1].rewrote
    /\ Cardinality(store) = 2

----------------------------------------------------------------------------
(* Claims about the search-time resolver *)

\* The fetcher of call c has made all its attempts and got a 429 each time.
Only429(c) ==
    /\ call[c].kind = "search"
    /\ call[c].fetcher.only429
    /\ call[c].fetcher.attempt = MaxAttempts

\* C9: when the upstream answers 429 on every attempt, a search whose local
\* lookup missed does not raise: once the fetcher has made its last attempt
\* the search returns source 'farnell' or 'empty' with rateLimited true.
C9_DegradesOn429 ==
    \A c \in Calls :
        Only429(c) =>
            /\ call[c].pc = "done"
            /\ call[c].resp.source \in {"farnell", "empty"}
            /\ call[c].resp.rateLimited

\* Step of call c from the arrival of a search to its cache lookup.
LooksUp(c) ==
    /\ call[c].pc = "idle"
    /\ call'[c].kind = "search"
    /\ call'[c].query # <<>>
    /\ ~(call'[c].supplier # <<>> /\ call'[c].supplierCode = "null")

\* C10: a search that finds an entry for its key (normalized query, limit,
\* supplier filter) before the entry's expiry returns the entry's value with
\* no store read and no upstream call; a search that finds the entry at or
\* after its expiry misses, drops the entry and goes on to the local lookup.
C10_CacheWindow ==
    /\ [](\A c \in Calls : call[c].hit =>
             /\ call[c].pc = "done"
             /\ call[c].reads = 0
             /\ call[c].fetcher.attempt = 0)
    /\ [][\A c \in Calls :
            LET key == CacheKeyOf(call'[c])
                at == CacheIndex(searchCache, key)
            IN LooksUp(c) /\ at # {} =>
                 LET entry == searchCache[CHOOSE n \in at : TRUE]
                 IN IF now < entry.expiresAt
                    THEN /\ call'[c].hit
                         /\ call'[c].resp = entry.value
                         /\ store' = store
                    ELSE /\ ~call'[c].hit
                         /\ call'[c].pc = "local"
                         /\ CacheIndex(searchCache', key) = {}]_vars

\* A second search was answered from the entry the first one left, after
\* the clock had moved.
C10_Witness ==
    \E c \in Calls :
        /\ call[c].hit
        /\ call[c].resp.source = "farnell"
        /\ call[c].resp.count = 1
        /\ now > 1
        /\ Len(searchCache) = 1

\* The rows the where clause of the local lookup of call c selects.
LocalMatches(c) ==
    {row \in store :
        /\ \/ row.supplierSku = call[c].query
           \/ Includes(Lower(row.name), Lower(call[c].query))
        /\ call[c].supplierCode # "null" => row.supplier = call[c].supplierCode}

\* The local lookup of the search of call c settles.
LocalStep(c) ==
    /\ call[c].kind = "search"
    /\ call[c].pc = "local"
    /\ call'[c].pc # "local"

\* The cache holds value under the key of call c after the step.
CachedAfter(c, value) ==
    \E n \in DOMAIN searchCache' :
        /\ searchCache'[n].key = CacheKeyOf(call'[c])
        /\ searchCache'[n].value = value

\* C11: a search whose local lookup returns at least one row ends there: no
\* request goes to the upstream, the store is not written, the response has
\* source 'local' and goes through setSearchCache (an entry, the TTL being
\* positive).
C11_LocalFirst ==
    /\ [](\A c \in Calls :
             call[c].kind = "search" /\ call[c].resp.source = "local" =>
                call[c].pc = "done" /\ call[c].fetcher.attempt = 0)
    /\ [][\A c \in Calls :
            LocalStep(c) /\ LocalMatches(c) # {} =>
               /\ call'[c].pc = "done"
               /\ call'[c].resp.source = "local"
               /\ call'[c].resp.items # {}
               /\ call'[c].resp.items \subseteq LocalMatches(c)
               /\ call'[c].fetcher.attempt = 0
               /\ store' = store
               /\ getSearchCacheTtlMs > 0 => CachedAfter(c, call'[c].resp)]_vars

\* A search was answered from the store, by a row an earlier search saved.
C11_Witness ==
    \E c \in Calls :
        /\ call[c].pc = "done"
        /\ call[c].resp.source = "local"
        /\ ~call[c].hit
        /\ call[c].resp.count = 1
        /\ \E n \in DOMAIN searchCache : searchCache[n].value = call[c].resp

\* The search before the one of call c had the same query, limit and
\* supplier filter, missed locally and saved a page of the upstream.
RepeatsSaved(c) ==
    /\ call[c].kind = "search"
    /\ call[c].prev.source = "saved"
    /\ call[c].prev.query = call[c].query
    /\ call[c].prev.safeLimit = call[c].safeLimit
    /\ call[c].prev.supplier = call[c].supplier

\* C12: the search that follows an identical search which missed locally,
\* fetched a non-empty page and saved it returns the same items with source
\* 'local'.
C12_NextIsLocal ==
    \A c \in Calls :
        RepeatsSaved(c) /\ call[c].pc \in {"done", "raised"} =>
            /\ call[c].pc = "done"
            /\ call[c].resp.source = "local"
            /\ call[c].resp.items = call[c].prev.items

----------------------------------------------------------------------------
(* Claims about the fetcher and the errors of a search *)

\* Bodies with the rate-limit phrasing, in whatever letter case.
Phrased(body) == body \in {RateLimitBody, QpsBody}

\* C13: while every attempt gets a 403 whose body has the rate-limit
\* phrasing, the fetcher waits and tries again, and at the attempt ceiling
\* it fails with FarnellRateLimitError; it fails with that error only when
\* its last exchange was such a 403, so never on a 403 without the phrasing.
C13_RateLimit403 ==
    \A c \in Calls :
        LET f == call[c].fetcher
        IN /\ f.same.status = 403 /\ Phrased(f.same.body) =>
                IF f.attempt < MaxAttempts
                THEN f.state = "pending" /\ f.waitMs > 0
                ELSE f.state = "rateLimited"
           /\ f.state = "rateLimited" =>
                f.last.status = 403 /\ Phrased(f.last.body)
           /\ f.last.status = 403 /\ ~Phrased(f.last.body) =>
                f.state \in {"pending", "error"}

\* Five 403s with 'Max Queries Per Second' ended the fetcher with
\* FarnellRateLimitError.
C13_Witness ==
    \E c \in Calls :
        /\ call[c].fetcher.same = [status |-> 403, body |-> QpsBody]
        /\ call[c].fetcher.attempt = MaxAttempts
        /\ call[c].fetcher.state = "rateLimited"

\* The Fetcher call of the search of call c ends in state st.
FetchEnds(c, st) ==
    /\ call[c].kind = "search"
    /\ call[c].pc = "fetch"
    /\ call'[c].fetcher.state = st

\* C14: a search whose Fetcher call fails with FarnellRateLimitError
\* returns, without raising, a response of zero items with rateLimited
\* true; a search whose Fetcher call fails with another error raises, and
\* neither the store nor the cache is written.
C14_DegradeOrRaise ==
    [][\A c \in Calls :
          /\ FetchEnds(c, "rateLimited") =>
                /\ call'[c].pc = "done"
                /\ call'[c].resp.count = 0
                /\ call'[c].resp.items = {}
                /\ call'[c].resp.rateLimited
                /\ store' = store
          /\ FetchEnds(c, "error") =>
                /\ call'[c].pc = "raised"
                /\ call'[c].resp = NoValue
                /\ store' = store
                /\ searchCache' = searchCache]_vars

\* A rate-limited search has returned its annotated empty response.
C14_Witness ==
    \E c \in Calls :
        /\ call[c].pc = "done"
        /\ call[c].fetcher.state = "rateLimited"
        /\ call[c].resp.rateLimited
        /\ call[c].resp.source = "farnell"

----------------------------------------------------------------------------
(* Claims about the failures of a sync run *)

\* The run of invocation i ends after an error of kind among kinds.
EndsFailed(i, kinds) ==
    /\ job[i].pc = "catch"
    /\ job[i].err \in kinds
    /\ job'[i].pc = "idle"

\* C15: a run whose page fetch fails with RateLimited or UpstreamError
\* after earlier pages succeeded ends without crashing the job (run()
\* returns, the flag is cleared), and the entries accumulated from the
\* earlier pages have been batched and upserted by then.
C15_PartialResultsSaved ==
    [][\A i \in Inv :
          EndsFailed(i, ErrorKinds) =>
             /\ ~isRunning'
             /\ outcome' = "failed"
             /\ \A n \in DOMAIN job[i].products :
                   \E row \in store' :
                       row.supplierSku = job[i].products[n].supplierSku]_vars

\* The SKUs of the first upto batches of the run of invocation i.
BatchSkus(i, upto) ==
    UNION {{job[i].batches[k][n].supplierSku : n \in DOMAIN job[i].batches[k]} :
             k \in 1..upto}

\* The run of invocation i is in its batch loop, or has left it on a failed
\* transaction.
InBatches(i) ==
    \/ job[i].pc \in {"upsert", "batchDelay"}
    \/ job[i].pc = "catch" /\ job[i].err = "PersistenceError"

\* The number of batches whose transaction has committed.
Committed(i) == IF job[i].pc = "batchDelay" THEN job[i].bi ELSE job[i].bi - 1

\* C16: the batches of a run are written one transaction each, in batch
\* order: in a run that started on an empty store, the store holds the
\* products of the committed batches and nothing else, also after the
\* transaction of batch k has failed (batches 1..k-1, nothing of batch k);
\* the failed run then ends: it writes nothing more and is not started
\* again.
C16_BatchAtomic ==
    /\ [](\A i \in Inv : InBatches(i) =>
             {row.supplierSku : row \in store} = BatchSkus(i, Committed(i)))
    /\ [][\A i \in Inv :
            /\ job[i].pc = "upsert" /\ job'[i].pc = "catch" =>
                  store' = store /\ job'[i].bi = job[i].bi
            /\ job[i].pc = "batchDelay" /\ job'[i].pc = "upsert" =>
                  job'[i].bi = job[i].bi + 1 /\ store' = store
            /\ EndsFailed(i, {"PersistenceError"}) =>
                  /\ store' = store
                  /\ ~isRunning'
                  /\ job'[i] = IdleJob
                  /\ runs' = runs]_vars

\* The transaction of the second batch failed after the first had
\* committed.
C16_Witness ==
    \E i \in Inv :
        /\ job[i].pc = "catch"
        /\ job[i].err = "PersistenceError"
        /\ job[i].bi = 2
        /\ Cardinality(store) = Len(job[i].batches[1])
        /\ store # {}

\* C17: the upsert of a sync batch leaves, for each of its entries, a row
\* with the entry's name and raw and with sourceUpdatedAt at the time of
\* this sync, whether the supplierKey was stored before or not.
C17_SyncStampsRows ==
    [][\A i \in Inv : SyncWrites(i) =>
          \A n \in DOMAIN job[i].batches[job[i].bi] :
              LET p == job[i].batches[job[i].bi][n]
              IN \E row \in store' :
                    /\ row.supplierKey = <<"farnell", ":">> \o p.supplierSku
                    /\ row.name = p.name
                    /\ row.raw = p.raw
                    /\ row.sourceUpdatedAt = now]_vars

----------------------------------------------------------------------------
(* The result cache at its capacity *)

\* The response cached for the search of query with an upstream that had
\* nothing; app.controller.ts:109-119.
NothingFound(query) ==
    [source |-> "farnell", count |-> 0, items |-> {},
     term |-> buildFarnellTerm([NoTerm EXCEPT !.q = query]),
     rateLimited |-> FALSE]

\* The cache after the searches of A with the limits 1 .. n, each at time t
\* and each answered with nothing by the upstream.
FilledCache(n, t) ==
    [k \in 1..n |->
        [key |-> buildSearchCacheKey(<<"A">>, k, "null"),
         expiresAt |-> t + getSearchCacheTtlMs,
         value |-> NothingFound(<<"A">>)]]

\* The limits of the searches at the capacity: one cached first, and three
\* that are not cached yet.
CacheLimits == {<<"1">>, <<"4", "9", "9">>, <<"5", "0", "0">>, <<"5", "0", "1">>}

\* The process has served CacheMaxSize - 2 searches in its first instant.
CacheInit ==
    /\ isRunning = FALSE
    /\ cfg = [BaseConfig EXCEPT !.maxPages = 2]
    /\ job = [i \in Inv |-> IdleJob]
    /\ outcome = "none"
    /\ runs = 0
    /\ rev = 1
    /\ store = {}
    /\ now = 1
    /\ ttlEnv \in {<<>>, <<"2">>}
    /\ searchCache = FilledCache(CacheMaxSize - 2, 1)
    /\ call = [n \in Calls |-> IdleCall]

CacheNext ==
    \/ \E limit \in CacheLimits : SearchStart(1, <<"A">>, limit, <<>>)
    \/ SearchFetch(1, HttpOk(<<>>))
    \/ SearchLocal(1)
    \/ Return(1)
    \/ Tick

CacheSpec == CacheInit /\ [][CacheNext]_vars

\* The search of slot c returns what it computed, which setSearchCache is
\* given under the key of the search.
Inserts(c) ==
    /\ call[c].kind = "search"
    /\ call[c].pc \in {"local", "fetch"}
    /\ call'[c].pc = "done"
    /\ call'[c].resp.source # "empty"

\* The keys of a cache, oldest insertion first.
KeysIn(cache) == [m \in DOMAIN cache |-> cache[m].key]

\* after holds the entries of live and the entry of key (fresh is 1 when
\* live has no entry of key, else 0) but for the oldest inserted ones beyond
\* CacheMaxSize, in their insertion order.
OldestOut(live, key, fresh, after) ==
    /\ Len(after) = Min(CacheMaxSize, Len(live) + fresh)
    /\ KeysIn(after) =
          KeysIn(SubSeq(live, Len(live) + fresh - Len(after) + 1, Len(live)))
             \o (IF fresh = 1 THEN <<key>> ELSE <<>>)

\* C18: with a positive time-to-live, after every cache insert the cache
\* holds at most CacheMaxSize entries, none of them expired, and the entry
\* just inserted; the entries an insert evicts are exactly the oldest
\* inserted ones, as many as the size exceeded the capacity by, and the
\* others stay in their insertion order (a key set again keeps its place).
C18_CapacityOldestOut ==
    [][\A c \in Calls :
          Inserts(c) /\ getSearchCacheTtlMs > 0 =>
             /\ Len(searchCache') <= CacheMaxSize
             /\ \A n \in DOMAIN searchCache' : searchCache'[n].expiresAt > now
             /\ \E n \in DOMAIN searchCache' :
                   /\ searchCache'[n].key = CacheKeyOf(call'[c])
                   /\ searchCache'[n].value = call'[c].resp
                   /\ searchCache'[n].expiresAt = now + getSearchCacheTtlMs
             /\ OldestOut(SelectSeq(searchCache, LAMBDA e : e.expiresAt > now),
                          CacheKeyOf(call'[c]),
                          IF \E m \in DOMAIN searchCache :
                                /\ searchCache[m].expiresAt > now
                                /\ searchCache[m].key = CacheKeyOf(call'[c])
                          THEN 0 ELSE 1,
                          searchCache')]_vars

\* An insert has pushed the oldest entry out of a full cache, and the entry
\* that was set again after it stays.
C18_Witness ==
    /\ Len(searchCache) = CacheMaxSize
    /\ searchCache[1].key = buildSearchCacheKey(<<"A">>, 2, "null")
    /\ searchCache[CacheMaxSize].key = buildSearchCacheKey(<<"A">>, CacheMaxSize + 1, "null")
    /\ call[1].pc = "done"
    /\ ~call[1].hit

----------------------------------------------------------------------------
(* The result cache switched off *)

\* SEARCH_CACHE_TTL_MS set to zero and to a negative number.
NoCacheInit == AppInit({<<"0">>, <<"-", "1">>})

NoCacheSpec == NoCacheInit /\ [][RepeatNext]_vars

\* C19: with a time-to-live of zero or below, the cache stays empty whatever
\* searches are served, and no search is answered from it.
C19_NoCacheAtOrBelowZero ==
    ttlEnv \in {<<"0">>, <<"-", "1">>} =>
        /\ searchCache = <<>>
        /\ \A c \in Calls : ~call[c].hit

----------------------------------------------------------------------------
(* Two searches of the same term at once *)

\* Two requests for A are in flight on an empty store and an empty cache,
\* the clock running and the upstream revising its catalogue.
ConcurrentInit == AppInit({<<>>})

ConcurrentNext ==
    \/ \E c \in {1, 2} : SearchStart(c, <<"A">>, <<"undefined">>, <<>>)
    \/ \E c \in {1, 2}, skus \in CataloguePages : SearchFetch(c, HttpOk(skus))
    \/ \E c \in {1, 2} : SearchStep(c)
    \/ UpstreamRevise
    \/ Tick

ConcurrentSpec == ConcurrentInit /\ [][ConcurrentNext]_vars

\* The row that holds the fields fetched for p, written at t.
RowOf(p, t) ==
    [supplier |-> "farnell", supplierSku |-> p.supplierSku,
     supplierKey |-> <<"farnell", ":">> \o p.supplierSku,
     name |-> p.name, raw |-> RawForStore(p), sourceUpdatedAt |-> t]

\* The rows left by the search first and then the search second, each
\* saving what it fetched: second's rows, and first's rows for the other SKUs.
SavedInTurn(first, second) ==
    {RowOf(second.items[k], second.opsAt) : k \in DOMAIN second.items}
    \cup {RowOf(first.items[k], first.opsAt) :
            k \in {n \in DOMAIN first.items :
                     \A m \in DOMAIN second.items :
                        second.items[m].supplierSku # first.items[n].supplierSku}}

\* Both searches missed the cache and the store, fetched products and have
\* returned.
BothSaved ==
    /\ \A c \in {1, 2} :
          /\ call[c].kind = "search"
          /\ call[c].pc = "done"
          /\ ~call[c].hit
          /\ call[c].items # <<>>

\* C20: when two searches of the same term have both missed the cache and
\* the store, both fetched and both saved, in whatever interleaving, the
\* store has one row per supplierKey and its rows are those of the two
\* searches saving one after the other, in one of the two orders.
C20_ConcurrentConverge ==
    BothSaved =>
        /\ \A r1, r2 \in store : r1.supplierKey = r2.supplierKey => r1 = r2
        /\ \/ store = SavedInTurn(call[1], call[2])
           \/ store = SavedInTurn(call[2], call[1])

\* Both searches fetched product A before either saved it, at different
\* revisions of the upstream, and the second to save has overwritten the
\* row of the first.
C20_Witness ==
    /\ BothSaved
    /\ call[1].items[1].supplierSku = <<"A">>
    /\ call[2].items[1].supplierSku = <<"A">>
    /\ call[1].items[1].name # call[2].items[1].name
    /\ call[1].reads = 2
    /\ call[2].reads = 2
    /\ Cardinality({row \in store : row.supplierSku = <<"A">>}) = 1

----------------------------------------------------------------------------
(* Claims about the sync run: errors, streak, stops, offsets, pacing *)

\* An error is raised inside invocation i of run().
ErrorStep(i) == job[i].err = "none" /\ job'[i].err # "none"

\* C21: run() never throws: a fetch error or a persistence error raised in
\* a run goes to the catch block, from where the run ends as failed with
\* the flag cleared; every call of run() that returns has finished, failed
\* or been skipped, and the manual trigger then answers status 'ok'.
C21_RunNeverThrows ==
    /\ [](outcome \in {"none", "finished", "failed", "skipped"})
    /\ [](outcome # "none" => syncFarnell.status = "ok")
    /\ [][\A i \in Inv : ErrorStep(i) =>
              /\ job'[i].pc = "catch"
              /\ job'[i].err \in ErrorKinds \cup {"PersistenceError"}]_vars
    /\ [][\A i \in Inv : job[i].pc = "catch" /\ job'[i] # job[i] =>
              /\ job'[i].pc = "idle"
              /\ outcome' = "failed"
              /\ ~isRunning'
              /\ syncFarnell'.status = "ok"]_vars

\* A run has saved a batch and then failed, and its run() has returned.
C21_Witness ==
    /\ outcome = "failed"
    /\ ~isRunning
    /\ store # {}
    /\ runs = 1
    /\ \A i \in Inv : job[i].pc = "idle"

\* Invocation i has taken the page it fetched into account: the page was
\* not empty, and the page index moves on.
PageCounted(i) ==
    /\ job[i].pc \in {"fetch", "refetch"}
    /\ job'[i].pageIndex = job[i].pageIndex + 1

\* C22: the streak counter is 0 when a run starts, a counted page that adds
\* no entry (every entry of it was already seen) increments it, a counted
\* page that adds an entry resets it to 0, nothing else changes it, and no
\* page is requested once it has reached 2.
C22_DuplicateStreak ==
    /\ [][\A i \in Inv :
            /\ job[i].pc = "idle" /\ job'[i].pc # "idle" =>
                  job'[i].duplicatePagesInRow = 0
            /\ PageCounted(i) /\ job'[i].products = job[i].products =>
                  job'[i].duplicatePagesInRow = job[i].duplicatePagesInRow + 1
            /\ PageCounted(i) /\ job'[i].products # job[i].products =>
                  job'[i].duplicatePagesInRow = 0
            /\ ~PageCounted(i) /\ job[i].pc # "idle" /\ job'[i].pc # "idle" =>
                  job'[i].duplicatePagesInRow = job[i].duplicatePagesInRow]_vars
    /\ [](\A i \in Inv :
            /\ job[i].duplicatePagesInRow \in 0..2
            /\ job[i].pc \in {"fetch", "refetch", "loop", "pageDelay"} =>
                  job[i].duplicatePagesInRow < 2)

\* A page added an entry, the next one was fully duplicate, and the third
\* added an entry again and has reset the streak.
C22_Witness ==
    \E i \in Inv :
        /\ job[i].pc = "pageDelay"
        /\ job[i].duplicatePagesInRow = 0
        /\ job[i].fetches = 3
        /\ job[i].switches = 0
        /\ job[i].pageIndex = 3
        /\ Len(job[i].products) = 2

\* The four conditions under which a page may be requested.
MayFetch(j) ==
    /\ Len(j.products) < targetTotal
    /\ j.pageIndex < maxPages
    /\ Len(j.products) < maxTotal
    /\ Min(targetTotal, maxTotal) - Len(j.products) > 0

RECURSIVE Flatten(_)
\* The batches put one after the other.
Flatten(batches) ==
    IF batches = <<>> THEN <<>> ELSE Head(batches) \o Flatten(Tail(batches))

\* The fetch phase of invocation i ends without an error, the accumulated
\* list as it was.
GracefulStop(i) ==
    /\ job'[i].pc = "chunk"
    /\ job'[i].err = "none"
    /\ job'[i].products = job[i].products

\* C23: a page request is outstanding only while count < targetTotal, page
\* index < maxPages, count < maxTotal and remaining budget > 0, and the loop
\* head stops the fetch phase exactly when one of them fails; an empty page
\* stops it too, but for the one mode-switch refetch; every such stop is
\* graceful, and the list accumulated so far is then chunked and its
\* batches upserted one after the other until the run finishes.
C23_StopsAreGraceful ==
    /\ [](\A i \in Inv : job[i].pc \in {"fetch", "refetch"} => MayFetch(job[i]))
    /\ [][\A i \in Inv : job[i].pc = "loop" /\ job'[i] # job[i] =>
              IF MayFetch(job[i]) THEN job'[i].pc = "fetch" ELSE GracefulStop(i)]_vars
    /\ [][\A i \in Inv : FetchPage(i, <<>>) =>
              \/ GracefulStop(i)
              \/ /\ job[i].switches = 0
                 /\ job'[i].switches = 1
                 /\ job'[i].pc = "refetch"]_vars
    /\ [][\A i \in Inv : job[i].pc = "chunk" /\ job'[i] # job[i] =>
              IF job[i].products = <<>>
              THEN job'[i].pc = "idle" /\ outcome' = "finished"
              ELSE /\ job'[i].pc = "upsert"
                   /\ job'[i].bi = 1
                   /\ Flatten(job'[i].batches) = job[i].products]_vars
    /\ [][\A i \in Inv : job[i].pc = "upsert" /\ job'[i].pc = "batchDelay" =>
              \A n \in DOMAIN job[i].batches[job[i].bi] :
                 \E row \in store' :
                    /\ row.supplierSku = job[i].batches[job[i].bi][n].supplierSku
                    /\ row.name = job[i].batches[job[i].bi][n].name]_vars
    /\ [][\A i \in Inv : job[i].pc = "batchDelay" /\ job'[i] # job[i] =>
              IF job[i].bi = Len(job[i].batches)
              THEN job'[i].pc = "idle" /\ outcome' = "finished"
              ELSE job'[i].pc = "upsert" /\ job'[i].bi = job[i].bi + 1]_vars

\* A run that switched mode and then got an empty page again has saved the
\* last batch of what it had accumulated.
C23_Witness ==
    \E i \in Inv :
        /\ job[i].stop = "empty"
        /\ job[i].switches = 1
        /\ job[i].pc = "batchDelay"
        /\ job[i].bi = Len(job[i].batches)
        /\ \A n \in DOMAIN job[i].products :
              \E row \in store : row.supplierSku = job[i].products[n].supplierSku

\* SUPPLIER_FARNELL_PAGINATION_MODE names a mode (or anything else that is
\* not blank): auto-detection is off.
ModePinned == Trim(cfg.paginationMode) # <<>>

\* C24: every outstanding page request has offset = pageIndex * pageSize in
\* item-offset mode and offset = pageIndex in page-index mode; a run starts
\* in item-offset mode unless the configuration pins the mode (to page-index
\* when it says 'page'), and with a pinned mode the mode never changes
\* during the run and an empty page ends the fetch phase with no refetch.
C24_OffsetFollowsMode ==
    /\ [](\A i \in Inv : job[i].pc \in {"fetch", "refetch"} =>
             job[i].offset = IF job[i].paginationMode = "item"
                             THEN job[i].pageIndex * pageSizeDefault
                             ELSE job[i].pageIndex)
    /\ [][\A i \in Inv : job[i].pc = "idle" /\ job'[i].pc # "idle" =>
              /\ ~ModePinned => job'[i].paginationMode = "item"
              /\ (job'[i].paginationMode = "page") <=>
                    (Lower(Trim(cfg.paginationMode)) = <<"p", "a", "g", "e">>)]_vars
    /\ [][\A i \in Inv : ModePinned /\ job[i].pc # "idle" /\ job'[i].pc # "idle" =>
              job'[i].paginationMode = job[i].paginationMode]_vars
    /\ [][\A i \in Inv : ModePinned /\ FetchPage(i, <<>>) =>
              /\ job'[i].pc = "chunk"
              /\ job'[i].stop = "empty"
              /\ job'[i].fetches = job[i].fetches]_vars

\* A run pinned to page-index mode, with pages of two, asks for its second
\* page at offset 1.
C24_Witness ==
    \E i \in Inv :
        /\ Lower(Trim(cfg.paginationMode)) = <<"p", "a", "g", "e">>
        /\ pageSizeDefault = 2
        /\ job[i].pc = "fetch"
        /\ job[i].paginationMode = "page"
        /\ job[i].pageIndex = 1
        /\ job[i].offset = 1

\* Invocation i issues a page request.
IssuesFetch(i) == job'[i].fetches = job[i].fetches + 1

\* C25: a page request is issued only at the loop head and, unless it is
\* the first of the run, only after the page delay has elapsed since the
\* previous page came back, whatever that page held.
C25_DelayBetweenFetches ==
    [][\A i \in Inv : IssuesFetch(i) =>
          /\ job[i].pc = "loop"
          /\ job[i].waited]_vars

----------------------------------------------------------------------------
(* The batches of a run *)

\* CATALOG_SYNC_BATCH_SIZE set to 0.5, 1, 1.5, ... up to MaxCfg.
BatchSizeOptions == 1..(2 * MaxCfg)

\* One run with pages of two, under each batch size.
BatchingInit == \E b \in BatchSizeOptions : InitWith([BaseConfig EXCEPT !.batchSize = b])

BatchingSpec == BatchingInit /\ [][PagingNext]_vars

\* The batches invocation i makes of its accumulated list in this step.
BatchesMade(i) == IF job'[i].pc = "idle" THEN <<>> ELSE job'[i].batches

\* C26: the batches of a run, put one after the other, are the accumulated
\* list; every batch but the last has batchSize entries, the last between 1
\* and batchSize, and an empty list gives no batch.
C26_BatchesPartition ==
    [][\A i \in Inv : job[i].pc = "chunk" /\ job'[i] # job[i] =>
          /\ Flatten(BatchesMade(i)) = job[i].products
          /\ \A k \in DOMAIN BatchesMade(i) :
                IF k < Len(BatchesMade(i))
                THEN Len(BatchesMade(i)[k]) = batchSize
                ELSE Len(BatchesMade(i)[k]) \in 1..batchSize
          /\ job[i].products = <<>> => BatchesMade(i) = <<>>]_vars

----------------------------------------------------------------------------
(* Claims about the attempts and the waits of the fetcher *)

\* The last exchange of fetcher f was a 403 with the rate-limit phrasing.
LastRateLimit403(f) == f.last.status = 403 /\ Phrased(f.last.body)

\* C27: one Fetcher call makes at most MaxAttempts requests whatever the
\* upstream answers: it returns at the first successful response, a failed
\* attempt below the ceiling is followed by another, and the failure of the
\* last allowed attempt ends the call at once, with a generic error unless
\* that failure was a rate-limit 403; no request is made once it has ended.
C27_AttemptCeiling ==
    \A c \in Calls :
        LET f == call[c].fetcher
        IN /\ f.attempt <= MaxAttempts
           /\ f.state \in {"pending", "ok", "error", "rateLimited"}
           /\ f.last.status = 200 <=> f.state = "ok"
           /\ f.state \in {"error", "rateLimited"} => f.attempt = MaxAttempts
           /\ f.attempt = MaxAttempts => f.state # "pending"
           /\ f.attempt = MaxAttempts /\ f.last.status # 200 /\ ~LastRateLimit403(f) =>
                 f.state = "error"
           /\ call[c].kind = "search" /\ call[c].pc = "fetch" => f.state = "pending"

\* Failures of several kinds, the fifth a transport failure, have ended a
\* Fetcher call with the generic error.
C27_Witness ==
    \E c \in Calls :
        /\ call[c].fetcher.attempt = MaxAttempts
        /\ call[c].fetcher.state = "error"
        /\ call[c].fetcher.same = MixedShown
        /\ call[c].fetcher.last.status = 0
        /\ call[c].pc = "raised"

RECURSIVE Backoff(_)
\* The wait of the schedule before retry k: the seed delay, doubled for
\* each further retry, capped.
Backoff(k) == IF k <= 1 THEN SeedDelayMs ELSE Min(2 * Backoff(k - 1), DelayCapMs)

\* The seconds a Retry-After header of the model can carry.
RetryAfterHints == {ra \in 1..2 : \E r \in AllExchanges : r.kind = "status" /\ r.retryAfter = ra}

\* C28: the wait after the failed attempt k of a Fetcher call is the wait
\* of the one schedule (seed delay, doubling, capped), whatever the failure
\* was, or the hinted seconds when the failure was a 429 with Retry-After.
C28_OneBackoffSchedule ==
    \A c \in Calls :
        LET f == call[c].fetcher
        IN f.state = "pending" /\ f.attempt >= 1 =>
              \/ f.waitMs = Backoff(f.attempt)
              \/ /\ f.last.status = 429
                 /\ \E ra \in RetryAfterHints : f.waitMs = ra * 1000

----------------------------------------------------------------------------
(* Claims about the search of another supplier and the upstream term *)

\* The local lookup of the search of call c settles and finds no row, the
\* supplier filter naming a supplier that is not the one with an upstream.
OtherSupplierMiss(c) ==
    /\ call[c].kind = "search"
    /\ call[c].pc = "local"
    /\ call'[c] # call[c]
    /\ call[c].supplierCode \in {"newark", "element14", "mock"}
    /\ \A row \in store :
          ~(/\ row.supplier = call[c].supplierCode
            /\ \/ row.supplierSku = call[c].query
               \/ ContainsInsensitive(row.name, call[c].query))

\* C29: a search whose local lookup finds nothing and whose supplier filter
\* names another supplier than the integrated one returns the empty
\* response at once: no Fetcher call is started, and neither the store nor
\* the cache is written.
C29_OtherSupplierEmpty ==
    [][\A c \in Calls : OtherSupplierMiss(c) =>
          /\ call'[c].pc = "done"
          /\ call'[c].resp.source = "empty"
          /\ call'[c].resp.count = 0
          /\ call'[c].resp.items = {}
          /\ call'[c].fetcher.attempt = 0
          /\ call'[c].reads = 1
          /\ store' = store
          /\ searchCache' = searchCache]_vars

\* A search for the mock supplier has returned empty after its one read,
\* with caching on and a row of the integrated supplier having its query
\* for SKU.
C29_Witness ==
    \E c \in Calls :
        /\ call[c].kind = "search"
        /\ call[c].pc = "done"
        /\ call[c].supplierCode = "mock"
        /\ call[c].reads = 1
        /\ call[c].resp.source = "empty"
        /\ getSearchCacheTtlMs > 0
        /\ \E row \in store : row.supplierSku = call[c].query

\* Values of the fields term, mpn, id and keyword: absent, blank, and a
\* value of their own with blanks around it.
FieldOptions(v) == {<<>>, <<" ">>, <<" ", v, " ">>}

\* Bare queries: absent, blank, a word, digits, digits with blanks around
\* them, words with a blank between them, letters and digits.
QueryOptions ==
    {<<>>, <<" ">>, <<"A">>, <<"1", "2">>, <<" ", "1", " ">>,
     <<"A", " ", "1">>, <<"1", "A">>}

TermInputs ==
    [term : FieldOptions("t"), mpn : FieldOptions("m"), id : FieldOptions("i"),
     keyword : FieldOptions("k"), q : QueryOptions,
     offset : {<<"undefined">>}, numberOfResults : {<<"undefined">>}]

\* Batch searches of one query object each, nothing saved.
TermNext ==
    \/ \E input \in TermInputs : BatchStartQueries(1, <<input>>, <<>>)
    \/ \E skus \in CataloguePages : BatchFetch(1, HttpOk(skus))
    \/ Return(1)

TermSpec == AppInit({<<"0">>}) /\ [][TermNext]_vars

\* A field that is absent or holds only blanks.
Blank(v) == \A k \in DOMAIN v : v[k] = " "

\* The term the claim gives for an input.
ClaimedTerm(input) ==
    IF ~Blank(input.term) THEN Trim(input.term)
    ELSE IF ~Blank(input.mpn) THEN <<"manuPartNum:">> \o Trim(input.mpn)
    ELSE IF ~Blank(input.id) THEN <<"id:">> \o Trim(input.id)
    ELSE IF ~Blank(input.keyword) THEN <<"any:">> \o Trim(input.keyword)
    ELSE IF Blank(input.q) THEN <<>>
    ELSE IF " " \in {Trim(input.q)[k] : k \in DOMAIN Trim(input.q)}
         THEN <<"any:">> \o Trim(input.q)
    ELSE IF {Trim(input.q)[k] : k \in DOMAIN Trim(input.q)}
               \subseteq {"0", "1", "2", "3", "4", "5", "6", "7", "8", "9"}
         THEN <<"id:">> \o Trim(input.q)
    ELSE <<"manuPartNum:">> \o Trim(input.q)

\* C30: the term resolved for a query is that of the first non-blank field
\* in the order term, mpn, id, keyword (the trimmed term as it is,
\* manuPartNum:, id: and any: before the trimmed others); with all four
\* blank the trimmed bare query gives any: when it holds whitespace, id:
\* when it is all digits and manuPartNum: otherwise; a blank query gives no
\* term, and the batch search reports 'missing query' without a request.
C30_TermNormalization ==
    /\ [](\A c \in Calls :
            call[c].kind = "batch" /\ call[c].pc = "fetch" =>
               /\ ClaimedTerm(Head(call[c].queries)) # <<>>
               /\ call[c].term = ClaimedTerm(Head(call[c].queries)))
    /\ [][\A c \in Calls :
            call[c].pc = "idle" /\ call'[c].kind = "batch" /\ call'[c].pc = "done" =>
               \A input \in TermInputs :
                   BatchStartQueries(c, <<input>>, <<>>) =>
                      /\ ClaimedTerm(input) = <<>>
                      /\ call'[c].resp.results
                            = <<BatchResult(<<>>, 0, "missing query")>>
                      /\ call'[c].fetcher.attempt = 0]_vars

\* The bare query ' 1 ' of an input whose other fields are blank has given
\* the term id:1, which was sent upstream.
C30_Witness ==
    \E c \in Calls :
        /\ call[c].kind = "batch"
        /\ call[c].pc = "done"
        /\ call[c].resp.results # <<>>
        /\ call[c].resp.results[1].term = <<"id:", "1">>
        /\ call[c].fetcher.attempt = 1

----------------------------------------------------------------------------
(* Claims about the parse of a page and the numbers sent upstream *)

MaxEntries == 2    \* entries of a parsed body

\* The identifier keys of an entry: none, a sku, a numeric id, a blank
\* productCode, a blank sku before a numeric id.
IdentifierParts ==
    {[sku |-> Absent, id |-> Absent, productCode |-> Absent],
     [sku |-> JString(<<"A">>), id |-> Absent, productCode |-> Absent],
     [sku |-> Absent, id |-> JNumber(7), productCode |-> Absent],
     [sku |-> Absent, id |-> Absent, productCode |-> JString(<<" ">>)],
     [sku |-> JString(<<" ">>), id |-> JNumber(7), productCode |-> Absent]}

\* The name keys of an entry: none, a displayName, a blank name, a name.
NameParts ==
    {[displayName |-> Absent, name |-> Absent],
     [displayName |-> JString(<<"n">>), name |-> Absent],
     [displayName |-> Absent, name |-> JString(<<" ">>)],
     [displayName |-> Absent, name |-> JString(<<"m">>)]}

\* Upstream entries: objects of the five keys, and an entry that is no
\* object.
UpstreamEntries ==
    {[sku |-> i.sku, id |-> i.id, productCode |-> i.productCode,
      displayName |-> n.displayName, name |-> n.name] :
         i \in IdentifierParts, n \in NameParts}
    \cup {JText}

\* The products of a body: arrays of up to MaxEntries entries, the same
\* wrapped in an object, a single entry in an object, and no products.
UpstreamProducts ==
    LET lists == UNION {[1..n -> UpstreamEntries] : n \in 0..MaxEntries}
    IN {ProductsArray(l) : l \in lists}
       \cup {ProductsWrapped(l) : l \in {x \in lists : Len(x) <= 1}}
       \cup {ProductsSingle(p) : p \in UpstreamEntries}
       \cup {ProductsMissing}

\* Admin searches, each answered by one 2xx body.
ParseNext ==
    \/ AdminStart(1, NoTerm)
    \/ \E products \in UpstreamProducts : AdminFetch(1, HttpJson(products))
    \/ Return(1)

ParseSpec == AppInit({<<"0">>}) /\ [][ParseNext]_vars

\* An entry has a value under one of the keys: a non-blank string or a
\* number.
HasField(p, keys) ==
    \E k \in DOMAIN keys :
        \/ p[keys[k]].t = "number"
        \/ p[keys[k]].t = "string" /\ \E n \in DOMAIN p[keys[k]].v : p[keys[k]].v[n] # " "

\* The entry has neither an identifier nor a display name.
MissingBoth(p) ==
    \/ "t" \in DOMAIN p
    \/ ~HasField(p, <<"sku", "id", "productCode">>)
       /\ ~HasField(p, <<"displayName", "name">>)

\* The entry lacks an identifier or lacks a display name.
MissingEither(p) ==
    \/ "t" \in DOMAIN p
    \/ ~HasField(p, <<"sku", "id", "productCode">>)
    \/ ~HasField(p, <<"displayName", "name">>)

Parsed(c) == call[c].kind = "admin" /\ call[c].pc = "done"

RawsOf(items) == [k \in DOMAIN items |-> items[k].raw]

\* C31: the entries a parse returns are, in the order of the response and
\* with their payloads as they came, the entries that are not missing both
\* an identifier and a display name.
C31_DropsOnlyMissingBoth ==
    \A c \in Calls :
        Parsed(c) =>
            RawsOf(call[c].resp.items)
               = SelectSeq(call[c].json.list, LAMBDA p : ~MissingBoth(p))

\* What the parse does: the entries kept are those that lack neither.
ParseDropsMissingEither ==
    \A c \in Calls :
        Parsed(c) =>
            RawsOf(call[c].resp.items)
               = SelectSeq(call[c].json.list, LAMBDA p : ~MissingEither(p))

\* Numbers given at the surface: absent, empty, zero, negative, fractions
\* below and above one, a whole number, and text.
NumericInputs ==
    {<<"undefined">>, <<>>, <<"0">>, <<"-", "1">>, <<"0", ".", "5">>,
     <<"-", "0", ".", "5">>, <<"2", ".", "5">>, <<"3">>, <<"a">>}

\* CATALOG_SYNC_PAGE_SIZE from a half to MaxCfg, in halves.
PageSizeOptions == 1..(2 * MaxCfg)

\* The process after construction, with a page size and without the cache.
ClampInit ==
    /\ isRunning = FALSE
    /\ \E p \in PageSizeOptions : cfg = [BaseConfig EXCEPT !.pageSize = p]
    /\ job = [i \in Inv |-> IdleJob]
    /\ outcome = "none"
    /\ runs = 0
    /\ rev = 1
    /\ store = {}
    /\ now = 1
    /\ ttlEnv = <<"0">>
    /\ searchCache = <<>>
    /\ call = [n \in Calls |-> IdleCall]

\* The four endpoints with each numeric input, every request answered by
\* an empty page, and then one sync run.
ClampNext ==
    \/ /\ runs = 0
       /\ \/ \E limit \in NumericInputs : SearchStart(1, <<"A">>, limit, <<>>)
          \/ SearchLocal(1)
          \/ SearchFetch(1, HttpOk(<<>>))
          \/ ProductStart(1, <<"A">>, <<>>)
          \/ ProductFindFirst(1)
          \/ ProductFetch(1, HttpOk(<<>>))
          \/ \E o, n \in NumericInputs :
                AdminStart(1, [NoTerm EXCEPT !.offset = o, !.numberOfResults = n])
          \/ AdminFetch(1, HttpOk(<<>>))
          \/ \E o, n \in NumericInputs :
                BatchStartQueries(1,
                    <<[NoTerm EXCEPT !.q = <<"A">>, !.offset = o,
                                     !.numberOfResults = n]>>, <<>>)
          \/ BatchFetch(1, HttpOk(<<>>))
          \/ Return(1)
    \/ call[1].pc = "idle" /\ PagingNext

ClampSpec == ClampInit /\ [][ClampNext]_vars

\* The counts and offsets of the requests of the endpoints.
SurfaceClamped ==
    \A c \in Calls :
        call[c].pc = "fetch" => call[c].numberOfResults >= 1 /\ call[c].offset >= 0

\* The counts and offsets of the requests of the sync run.
SyncClamped ==
    \A i \in Inv :
        job[i].pc = "fetch" => job[i].take >= 1 /\ job[i].offset >= 0

\* C32: every request that reaches the fetcher, from the four endpoints and
\* from the sync run, asks for a whole number of results of at least 1 at a
\* whole offset of at least 0, whatever numbers were given at the surface
\* or in the configuration.
C32_CountsAndOffsetsClamped == SurfaceClamped /\ SyncClamped

----------------------------------------------------------------------------
(* Claims about the end of the fetch phase *)

\* One run under each maxPages and each pagination mode, the other options
\* as in BaseConfig; a started step of run() is run to its end.
FetchPhaseInit ==
    \E m \in WholeCounts \cup {0}, mode \in ModeOptions :
        InitWith([BaseConfig EXCEPT !.maxPages = m, !.paginationMode = mode])

FetchPhaseSpec ==
    /\ FetchPhaseInit
    /\ [][PagingNext]_vars
    /\ WF_vars(RunStep(1))

InFetchPhase(j) == j.pc \in {"loop", "fetch", "refetch", "pageDelay"}

\* C33: a run makes at most maxPages + 1 page fetches and switches the mode
\* at most once; an iteration of the fetch loop that does not end the fetch
\* phase has raised the page index by one, no other step changes the index;
\* and the fetch phase of every run comes to its end.
C33_FetchPhaseBounded ==
    /\ [](\A i \in Inv : job[i].fetches <= maxPages + 1 /\ job[i].switches <= 1)
    /\ [][\A i \in Inv :
            InFetchPhase(job[i]) /\ InFetchPhase(job'[i]) =>
               job'[i].pageIndex =
                  IF job[i].pc \in {"fetch", "refetch"}
                     /\ job'[i].pc \in {"loop", "pageDelay"}
                  THEN job[i].pageIndex + 1 ELSE job[i].pageIndex]_vars
    /\ \A i \in Inv : InFetchPhase(job[i]) ~> ~InFetchPhase(job[i])

\* A run has switched the mode and made maxPages + 1 fetches.
C33_Witness ==
    \E i \in Inv :
        /\ job[i].switches = 1
        /\ job[i].fetches = maxPages + 1
        /\ job[i].pc = "chunk"

----------------------------------------------------------------------------
(* Claims about the cache key and the cached misses *)

\* The store a sync run leaves of a page with the SKU A.
SyncedStore == SyncUpsertAll({}, PageOf(<<<<"A">>>>, 1))

\* Queries that differ in the case of their letter or in the blanks around
\* it.
KeyQueries == {<<"A">>, <<"a">>, <<" ", "A">>}

KeySuppliers == {<<>>, Chars("farnell"), Chars("Farnell")}

\* The process with the cache switched off, over an empty store or the
\* store of a sync run.
KeyInit ==
    /\ isRunning = FALSE
    /\ cfg = [BaseConfig EXCEPT !.maxPages = 2]
    /\ job = [i \in Inv |-> IdleJob]
    /\ outcome = "none"
    /\ runs = 0
    /\ rev = 1
    /\ store \in {{}, SyncedStore}
    /\ now = 1
    /\ ttlEnv = <<"0">>
    /\ searchCache = <<>>
    /\ call = [n \in Calls |-> IdleCall]

\* Searches in two slots, none served from the cache, against an upstream
\* that has no entry for any term: the store stays as it is.
KeyNext ==
    \E c \in {1, 2} :
        \/ \E q \in KeyQueries, supplier \in KeySuppliers :
              SearchStart(c, q, <<"undefined">>, supplier)
        \/ SearchLocal(c)
        \/ SearchFetch(c, HttpOk(<<>>))
        \/ Return(c)

KeySpec == KeyInit /\ [][KeyNext]_vars

Resolved(c) == call[c].kind = "search" /\ call[c].pc = "done" /\ ~call[c].hit

\* C34: two searches with the same cache key, each resolved without the
\* cache against the same store and the same upstream, have the same
\* response.
C34_SameKeySameResponse ==
    \A c1, c2 \in Calls :
        /\ Resolved(c1)
        /\ Resolved(c2)
        /\ CacheKeyOf(call[c1]) = CacheKeyOf(call[c2])
        => call[c1].resp = call[c2].resp

\* What holds: the responses are the same when the trimmed queries are the
\* same, case included.
SameQuerySameResponse ==
    \A c1, c2 \in Calls :
        /\ Resolved(c1)
        /\ Resolved(c2)
        /\ CacheKeyOf(call[c1]) = CacheKeyOf(call[c2])
        /\ call[c1].query = call[c2].query
        => call[c1].resp = call[c2].resp

\* Searches for A in slot 1 against an upstream that has no entry or limits
\* the rate, product lookups of A in slot 2 that save the row, and the
\* clock; the cache is on.
MissNext ==
    \/ SearchStart(1, <<"A">>, <<"undefined">>, <<>>)
    \/ SearchLocal(1)
    \/ \E r \in {HttpOk(<<>>), HttpStatus(403, RateLimitBody, 0)} : SearchFetch(1, r)
    \/ Return(1)
    \/ ProductStart(2, <<"A">>, <<>>)
    \/ ProductFetch(2, HttpOk(<<<<"A">>>>))
    \/ ProductStep(2)
    \/ Return(2)
    \/ Tick

MissSpec == AppInit({<<>>, <<"2">>}) /\ [][MissNext]_vars

\* The entries of the cache that hold an empty response under the key of k
\* and have not expired.
LiveMisses(k) ==
    {n \in DOMAIN searchCache :
        /\ searchCache[n].key = CacheKeyOf(k)
        /\ searchCache[n].expiresAt > now
        /\ searchCache[n].value.count = 0}

\* C35: with the cache on, a search that ends at the upstream without an
\* entry has stored its empty response, marked rateLimited when the rate
\* was limited; and a search that starts while such a response is in the
\* cache and has not expired returns it as it is, without a request and
\* without a read of the store, whatever the store holds by then.
C35_MissesAreCached ==
    /\ [][\A c \in Calls :
            /\ call[c].kind = "search"
            /\ call[c].pc = "fetch"
            /\ call'[c].pc = "done"
            /\ getSearchCacheTtlMs > 0
            => /\ call'[c].resp.count = 0
               /\ call'[c].resp.rateLimited = (call'[c].fetcher.state = "rateLimited")
               /\ \E n \in DOMAIN searchCache' :
                     /\ searchCache'[n].key = CacheKeyOf(call'[c])
                     /\ searchCache'[n].value = call'[c].resp
                     /\ searchCache'[n].expiresAt = now + getSearchCacheTtlMs]_vars
    /\ [][\A c \in Calls :
            /\ call[c].pc = "idle"
            /\ call'[c].kind = "search"
            /\ LiveMisses(call'[c]) # {}
            => /\ call'[c].pc = "done"
               /\ \A n \in LiveMisses(call'[c]) : call'[c].resp = searchCache[n].value
               /\ call'[c].reads = 0
               /\ call'[c].fetcher.attempt = 0
               /\ store' = store]_vars

\* A search was answered from the cache with the empty response of a
\* rate-limited search while the store holds a row that matches it.
C35_Witness ==
    \E c \in Calls :
        /\ call[c].kind = "search"
        /\ call[c].pc = "done"
        /\ call[c].hit
        /\ call[c].resp.count = 0
        /\ call[c].resp.rateLimited
        /\ \E row \in store : MatchLocal(row, call[c].query, call[c].supplierCode)

----------------------------------------------------------------------------
(* Claims about the product lookup with refresh *)

\* What the upstream answers to a lookup: no entry, the product, a rate
\* limit, a server error.
RefreshExchanges ==
    {HttpOk(<<>>), HttpOk(<<<<"A">>>>), HttpStatus(403, RateLimitBody, 0),
     HttpStatus(500, <<"Internal">>, 0)}

\* The process over an empty store or the store of a sync run.
RefreshInit ==
    /\ isRunning = FALSE
    /\ cfg = [BaseConfig EXCEPT !.maxPages = 2]
    /\ job = [i \in Inv |-> IdleJob]
    /\ outcome = "none"
    /\ runs = 0
    /\ rev = 1
    /\ store \in {{}, SyncedStore}
    /\ now = 1
    /\ ttlEnv = <<>>
    /\ searchCache = <<>>
    /\ call = [n \in Calls |-> IdleCall]

\* Lookups of A, with and without refresh, and the clock.
RefreshNext ==
    \/ \E refresh \in {<<>>, Chars("true")} : ProductStart(1, <<"A">>, refresh)
    \/ \E r \in RefreshExchanges : ProductFetch(1, r)
    \/ ProductStep(1)
    \/ Return(1)
    \/ Tick

RefreshSpec == RefreshInit /\ [][RefreshNext]_vars

\* The last exchange of the lookup of c was a rate limit at the ceiling of
\* the attempts, or a page without an entry.
NothingFetched(c, r) ==
    /\ ProductFetch(c, r)
    /\ \/ r = HttpOk(<<>>)
       \/ /\ r.kind = "status"
          /\ r.status = 403
          /\ call'[c].fetcher.attempt = MaxAttempts

\* C36: a lookup with refresh that found the row in the store and then got
\* a rate limit or no entry from the upstream returns, without raising,
\* the row it found under the source 'farnell', with rateLimited set when
\* the rate was limited, and the store is as it was.
C36_RefreshKeepsLocalRow ==
    [][\A c \in Calls : \A r \in RefreshExchanges :
          /\ call[c].shouldRefresh
          /\ call[c].found # {}
          /\ NothingFetched(c, r)
          => /\ call'[c].pc = "done"
             /\ call'[c].resp.source = "farnell"
             /\ call'[c].resp.item = call[c].found
             /\ call'[c].resp.item \subseteq store
             /\ call'[c].resp.rateLimited = (r.kind = "status")
             /\ store' = store]_vars

\* A lookup with refresh has returned the stored row after a rate limit.
C36_Witness ==
    \E c \in Calls :
        /\ call[c].kind = "product"
        /\ call[c].pc = "done"
        /\ call[c].shouldRefresh
        /\ call[c].resp.source = "farnell"
        /\ call[c].resp.rateLimited
        /\ call[c].resp.item # {}
        /\ call[c].resp.item \subseteq store
        /\ call[c].fetcher.attempt = MaxAttempts

====
